---- MODULE Spec2Model ----
(***************************************************************************)
(* Orbi speaker-intelligence backend: the embedding index                  *)
(* (database/vector_store.py), the identity resolver                       *)
(* (services/speaker_manager.py) and the per-recording pipeline            *)
(* orchestrator (tasks/process_audio.py), modelled as one state machine.   *)
(*                                                                         *)
(* Embeddings are integer 2-vectors with integral Euclidean norm, so that  *)
(* L2 normalisation and inner products are exact rationals; similarities   *)
(* are carried in hundredths (0.85 is 85).  float32 rounding is not        *)
(* modelled.                                                               *)
(***************************************************************************)
EXTENDS Integers, Sequences, FiniteSets, TLC

(***************************************************************************)
(* Bounds of the model                                                     *)
(***************************************************************************)
MaxRuns == 2       \* orchestrator invocations explored
MaxApi == 1        \* merge / delete API calls explored
MaxSegs == 3       \* segments a collaborator returns for one recording

(***************************************************************************)
(* Program constants                                                       *)
(***************************************************************************)
SPEAKER_SIMILARITY_THRESHOLD == 85
SearchDepth == 10
\* search(query_embedding, k = 5)
DefaultK == 5

None == 0                       \* Python None for speaker ids / matches

QUEUED == "queued"
PROCESSING == "processing"
COMPLETED == "completed"
FAILED == "failed"
ProcessingStatus == {QUEUED, PROCESSING, COMPLETED, FAILED}

(***************************************************************************)
(* Small input sets                                                        *)
(***************************************************************************)
Workers == {1, 2}
AudioFiles == {"r1", "r2"}          \* rows of audio_files
AudioIds == AudioFiles \cup {"r0"}  \* "r0" is an id with no row
Labels == {"S0", "S1"}              \* file-scoped diarization labels
Pipelines == {"gemini", "traditional"}

\* The collaborators are functions of the audio.  Recording "r1" has two
\* speakers with different voices, "r2" two labels for voices that are
\* close to each other and to the second voice of "r1".
RecordedLabels(audio_file_id) ==
  IF audio_file_id = "r1" THEN <<"S0", "S1", "S0", "S1">>
  ELSE <<"S0", "S1", "S1", "S0">>
RecordedVoice(audio_file_id, label) ==
  IF audio_file_id = "r1"
  THEN (IF label = "S0" THEN <<2, 0>> ELSE <<4, 3>>)
  ELSE (IF label = "S0" THEN <<3, 4>> ELSE <<4, 3>>)
Embeddings == {RecordedVoice(r, l) : r \in AudioFiles, l \in Labels}

(***************************************************************************)
(* Vector arithmetic                                                       *)
(***************************************************************************)
Abs(n) == IF n < 0 THEN -n ELSE n

RECURSIVE Gcd(_, _)
Gcd(a, b) == IF b = 0 THEN a ELSE Gcd(b, a % b)

\* Euclidean norm; the vectors of the model have an integral one
Norm(v) ==
  CHOOSE n \in 0..(Abs(v[1]) + Abs(v[2])) : n * n = v[1] * v[1] + v[2] * v[2]

\* faiss.normalize_L2: v / |v|, the zero vector is left as it is.
\* The unit vector is the pair (x/n, y/n) in lowest terms.
NormalizeL2(v) ==
  LET n == Norm(v) IN
  IF n = 0 THEN [x |-> 0, y |-> 0, n |-> 1]
  ELSE LET g == Gcd(Gcd(Abs(v[1]), Abs(v[2])), n)
       IN [x |-> v[1] \div g, y |-> v[2] \div g, n |-> n \div g]

\* inner product of two unit vectors, in hundredths
InnerProduct(a, b) == ((a.x * b.x + a.y * b.y) * 100) \div (a.n * b.n)

Min(a, b) == IF a < b THEN a ELSE b

(***************************************************************************)
(* VectorStore: index (vectors), metadata (one entry per position),        *)
(* speaker_to_indices (speaker id -> positions).  Position p of the code   *)
(* (0-based) is element p + 1 of the sequences.                            *)
(***************************************************************************)
EmptyStore == [index |-> <<>>, metadata |-> <<>>, speaker_to_indices |-> <<>>]

\* speaker_to_indices is a Python dict: a sequence of <<key, positions>>
\* pairs in insertion order.
DictKeys(d) == {d[i][1] : i \in 1..Len(d)}
DictGet(d, k, default) ==
  IF k \in DictKeys(d)
  THEN d[CHOOSE i \in 1..Len(d) : d[i][1] = k][2]
  ELSE default
DictPut(d, k, v) ==
  IF k \in DictKeys(d)
  THEN [i \in 1..Len(d) |-> IF d[i][1] = k THEN <<k, v>> ELSE d[i]]
  ELSE Append(d, <<k, v>>)
DictDel(d, k) == SelectSeq(d, LAMBDA e : e[1] # k)

\* The two files of the store.  A file is missing, unreadable or holds
\* what was written: the index file the vectors, the metadata file the
\* pickled pair of dicts, metadata being keyed by 0-based position.
FileStates == {"ok", "missing", "unreadable"}

\* save(): both files are written from the in-memory store
save(vs) ==
  [index_file |-> [state |-> "ok", data |-> vs.index],
   metadata_file |->
     [state |-> "ok",
      data |-> [metadata |-> [p \in 0..(Len(vs.metadata) - 1) |->
                                vs.metadata[p + 1]],
                speaker_to_indices |-> vs.speaker_to_indices]]]

\* the files with their states replaced
Damaged(files, index_state, metadata_state) ==
  [files EXCEPT !.index_file.state = index_state,
                !.metadata_file.state = metadata_state]

\* _load_or_create_index that keeps the index it has read when the
\* metadata file cannot be read
load_keeps_read_index(files) ==
  IF files.index_file.state = "ok"
  THEN [index |-> files.index_file.data,
        metadata |-> IF files.metadata_file.state = "ok"
                     THEN [i \in 1..Len(files.index_file.data) |->
                             files.metadata_file.data.metadata[i - 1]]
                     ELSE <<>>,
        speaker_to_indices |->
          IF files.metadata_file.state = "ok"
          THEN files.metadata_file.data.speaker_to_indices ELSE <<>>]
  ELSE EmptyStore

\* _load_or_create_index: both files are read when both exist; a missing
\* file, or an exception while reading either, gives _create_new_index()
load_or_create_index(files) ==
  IF files.index_file.state /= "missing" /\ files.metadata_file.state /= "missing"
  THEN IF files.index_file.state = "ok" /\ files.metadata_file.state = "ok"
       THEN [index |-> files.index_file.data,
             metadata |->
               [i \in 1..Cardinality(DOMAIN files.metadata_file.data.metadata) |->
                  files.metadata_file.data.metadata[i - 1]],
             speaker_to_indices |-> files.metadata_file.data.speaker_to_indices]
       ELSE EmptyStore
  ELSE EmptyStore

get_total_embeddings(vs) == Len(vs.index)

get_speaker_embeddings_count(vs, speaker_id) ==
  Len(DictGet(vs.speaker_to_indices, speaker_id, <<>>))

\* add_embedding without lines 116-118: the position is not entered in
\* speaker_to_indices
add_embedding_unlisted(vs, embedding, speaker_id, segment_id, audio_file_id) ==
  [index |-> Append(vs.index, NormalizeL2(embedding)),
   metadata |-> Append(vs.metadata,
                  [speaker_id |-> speaker_id, segment_id |-> segment_id,
                   audio_file_id |-> audio_file_id, deleted |-> FALSE]),
   speaker_to_indices |-> vs.speaker_to_indices]

add_embedding(vs, embedding, speaker_id, segment_id, audio_file_id) ==
  LET current_index == Len(vs.index)
      meta == [speaker_id |-> speaker_id, segment_id |-> segment_id,
               audio_file_id |-> audio_file_id, deleted |-> FALSE]
  IN [index |-> Append(vs.index, NormalizeL2(embedding)),
      metadata |-> Append(vs.metadata, meta),
      speaker_to_indices |->
        DictPut(vs.speaker_to_indices, speaker_id,
                Append(DictGet(vs.speaker_to_indices, speaker_id, <<>>),
                       current_index))]

\* IndexFlatIP.search: the k best positions by inner product, best first;
\* equal scores are returned in position order.
RECURSIVE TopK(_, _, _, _)
TopK(vs, q, S, k) ==
  IF k = 0 \/ S = {} THEN <<>>
  ELSE LET best == CHOOSE p \in S : \A r \in S :
                     \/ InnerProduct(vs.index[p], q) > InnerProduct(vs.index[r], q)
                     \/ /\ InnerProduct(vs.index[p], q) = InnerProduct(vs.index[r], q)
                        /\ p <= r
       IN <<best>> \o TopK(vs, q, S \ {best}, k - 1)

\* lines 148-157: the hits with their metadata; placeholder entries (no
\* speaker id) are dropped
SearchResults(vs, q, hits) ==
  SelectSeq([i \in 1..Len(hits) |->
               [speaker_id |-> vs.metadata[hits[i]].speaker_id,
                similarity |-> InnerProduct(vs.index[hits[i]], q),
                pos |-> hits[i] - 1]],
            LAMBDA r : r.speaker_id # None)

\* SearchNormalized without the ranking: the first k positions of the index
SearchByPosition(vs, q, k) ==
  SearchResults(vs, q, [i \in 1..Min(k, Len(vs.index)) |-> i])

\* lines 143-146: the query is normalised, k is capped by the index size
SearchNormalized(vs, q, k) ==
  SearchResults(vs, q, TopK(vs, q, 1..Len(vs.index), Min(k, Len(vs.index))))

search(vs, query_embedding, k) ==
  IF Len(vs.index) = 0 THEN <<>>
  ELSE SearchNormalized(vs, NormalizeL2(query_embedding), k)

\* speaker_similarities: speaker id -> [sum, cnt] of its hits, keys in the
\* order of first appearance in the results.
RECURSIVE GroupBySpeaker(_, _)
GroupBySpeaker(results, acc) ==
  IF results = <<>> THEN acc
  ELSE LET r == Head(results)
           old == DictGet(acc, r.speaker_id, [sum |-> 0, cnt |-> 0])
       IN GroupBySpeaker(Tail(results),
            DictPut(acc, r.speaker_id,
                    [sum |-> old.sum + r.similarity, cnt |-> old.cnt + 1]))

\* mean a > mean b, the means being sum / cnt
MeanGT(a, b) == a.sum * b.cnt > b.sum * a.cnt
\* mean a >= t
MeanGE(a, t) == a.sum >= t * a.cnt

RECURSIVE BestSpeaker(_, _)
BestSpeaker(groups, best) ==
  IF groups = <<>> THEN best
  ELSE LET g == Head(groups)
       IN BestSpeaker(Tail(groups),
            IF MeanGT(g[2], best.similarity)
            THEN [speaker |-> g[1], similarity |-> g[2]]
            ELSE best)

\* Optional[Tuple[str, float]]: found = FALSE is the None result; otherwise
\* speaker is best_speaker and similarity the mean sum / cnt.
NoMatch == [found |-> FALSE, speaker |-> None, similarity |-> [sum |-> 0, cnt |-> 1]]

\* lines 200-204: the best speaker is returned when its mean reaches the
\* threshold
ThresholdMatch(best, threshold) ==
  IF MeanGE(best.similarity, threshold)
  THEN [found |-> TRUE, speaker |-> best.speaker,
        similarity |-> best.similarity]
  ELSE NoMatch

\* lines 180-198
MatchInResults(results, threshold) ==
  IF results = <<>> THEN NoMatch
  ELSE ThresholdMatch(
         BestSpeaker(GroupBySpeaker(results, <<>>),
                     [speaker |-> None, similarity |-> [sum |-> 0, cnt |-> 1]]),
         threshold)

find_matching_speaker(vs, query_embedding, similarity_threshold) ==
  MatchInResults(search(vs, query_embedding, SearchDepth),
                 IF similarity_threshold = 0
                 THEN SPEAKER_SIMILARITY_THRESHOLD
                 ELSE similarity_threshold)

\* remove_speaker without line 233: the positions are tombstoned, the key
\* stays in speaker_to_indices
remove_speaker_keeps_key(vs, speaker_id) ==
  IF speaker_id \in DictKeys(vs.speaker_to_indices)
  THEN LET idxs == DictGet(vs.speaker_to_indices, speaker_id, <<>>)
           S == {idxs[i] + 1 : i \in 1..Len(idxs)}
       IN [vs EXCEPT
             !.metadata = [p \in 1..Len(vs.metadata) |->
                IF p \in S THEN [vs.metadata[p] EXCEPT !.deleted = TRUE]
                ELSE vs.metadata[p]]]
  ELSE vs

remove_speaker(vs, speaker_id) ==
  IF speaker_id \in DictKeys(vs.speaker_to_indices)
  THEN LET idxs == DictGet(vs.speaker_to_indices, speaker_id, <<>>)
           S == {idxs[i] + 1 : i \in 1..Len(idxs)}
       IN [vs EXCEPT
             !.metadata = [p \in 1..Len(vs.metadata) |->
                IF p \in S THEN [vs.metadata[p] EXCEPT !.deleted = TRUE]
                ELSE vs.metadata[p]],
             !.speaker_to_indices = DictDel(vs.speaker_to_indices, speaker_id)]
  ELSE vs

\* lines 246-256: the loop over the metadata collects nothing (its body is
\* pass) and valid_embeddings and valid_metadata are never assigned to
\* self.index or self.metadata: the store is left as it is.
rebuild_index(vs) ==
  LET valid_embeddings == <<>>
      valid_metadata == <<>>
  IN vs

(***************************************************************************)
(* Relational store.  A database D is [speakers, segments, links]: the     *)
(* rows of speakers, speaker_segments and speaker_audio_files in insertion *)
(* (rowid) order.  Queries without ORDER BY return rows in that order.     *)
(* The session autoflushes (sessionmaker defaults), so a query sees the    *)
(* pending changes of its own session.                                     *)
(***************************************************************************)
SpeakerIds(D) == {D.speakers[i].id : i \in 1..Len(D.speakers)}

\* Optional[Speaker]: call only when the row exists
get_speaker(D, speaker_id) ==
  D.speakers[CHOOSE i \in 1..Len(D.speakers) : D.speakers[i].id = speaker_id]

HasSpeaker(D, speaker_id) == speaker_id \in SpeakerIds(D)

\* name is NNN of "Speaker_NNN": the row count plus one
create_speaker(D, new_id) ==
  [D EXCEPT !.speakers = Append(@,
     [id |-> new_id, name |-> Len(D.speakers) + 1,
      total_duration_seconds |-> 0, file_count |-> 0])]

HasLink(D, speaker_id, audio_file_id) ==
  \E i \in 1..Len(D.links) : /\ D.links[i].speaker_id = speaker_id
                             /\ D.links[i].audio_file_id = audio_file_id

\* update_speaker_stats without the look-up of the association: every call
\* counts the recording
update_stats_always_counts(D, speaker_id, audio_file_id, duration) ==
  IF ~HasSpeaker(D, speaker_id) THEN D
  ELSE [D EXCEPT !.speakers = [i \in 1..Len(D.speakers) |->
         IF D.speakers[i].id = speaker_id
         THEN [D.speakers[i] EXCEPT
                 !.total_duration_seconds = @ + duration,
                 !.file_count = @ + 1]
         ELSE D.speakers[i]]]

update_speaker_stats(D, speaker_id, audio_file_id, duration) ==
  IF ~HasSpeaker(D, speaker_id) THEN D
  ELSE [D EXCEPT !.speakers = [i \in 1..Len(D.speakers) |->
         IF D.speakers[i].id = speaker_id
         THEN [D.speakers[i] EXCEPT
                 !.total_duration_seconds = @ + duration,
                 !.file_count = IF HasLink(D, speaker_id, audio_file_id)
                                THEN @ ELSE @ + 1]
         ELSE D.speakers[i]]]

create_speaker_audio_association(D, speaker_id, audio_file_id, total_duration, segment_count) ==
  [D EXCEPT !.links = Append(@,
     [speaker_id |-> speaker_id, audio_file_id |-> audio_file_id,
      total_speech_duration |-> total_duration,
      segment_count |-> segment_count, speaker_insight |-> FALSE])]

SetMin(S) == CHOOSE m \in S : \A n \in S : m <= n
SetMax(S) == CHOOSE m \in S : \A n \in S : m >= n

\* Positions of the speaker_audio_files rows of a speaker, ascending.
RECURSIVE AssocsOf(_, _, _)
AssocsOf(links, i, speaker_id) ==
  IF i > Len(links) THEN <<>>
  ELSE (IF links[i].speaker_id = speaker_id THEN <<i>> ELSE <<>>)
       \o AssocsOf(links, i + 1, speaker_id)

\* merge_speakers, the loop over source_assocs.  links keeps the row
\* positions; gone holds the positions deleted so far; blocked is set when
\* a deleted row owns a speaker_insights row: the flush has to null that
\* row's NOT NULL foreign key and raises IntegrityError.
RECURSIVE MergeAssocs(_, _, _, _, _)
MergeAssocs(links, todo, gone, blocked, target_speaker_id) ==
  IF todo = <<>> THEN [links |-> links, gone |-> gone, blocked |-> blocked]
  ELSE LET a == Head(todo)
           cand == {j \in (1..Len(links)) \ gone :
                      /\ links[j].speaker_id = target_speaker_id
                      /\ links[j].audio_file_id = links[a].audio_file_id}
       IN IF cand # {}
          THEN LET existing == SetMin(cand)
               IN MergeAssocs(
                    [links EXCEPT
                       ![existing].total_speech_duration =
                           @ + links[a].total_speech_duration,
                       ![existing].segment_count = @ + links[a].segment_count],
                    Tail(todo), gone \cup {a},
                    blocked \/ links[a].speaker_insight, target_speaker_id)
          ELSE MergeAssocs([links EXCEPT ![a].speaker_id = target_speaker_id],
                           Tail(todo), gone, blocked, target_speaker_id)

RECURSIVE DropRows(_, _, _)
DropRows(rows, i, gone) ==
  IF i > Len(rows) THEN <<>>
  ELSE (IF i \in gone THEN <<>> ELSE <<rows[i]>>) \o DropRows(rows, i + 1, gone)

\* MergeResult with the statistics update left out: the target keeps its
\* own duration.
MergeResultKeepsDuration(D, source_speaker_id, target_speaker_id, segs, links, blocked) ==
  [db |-> [speakers |->
             SelectSeq([i \in 1..Len(D.speakers) |->
                          IF D.speakers[i].id = target_speaker_id
                          THEN [D.speakers[i] EXCEPT
                                  !.file_count =
                                     Len(SelectSeq(links, LAMBDA r :
                                           r.speaker_id = target_speaker_id))]
                          ELSE D.speakers[i]],
                       LAMBDA r : r.id # source_speaker_id),
           segments |-> segs,
           links |-> links],
   early |-> blocked,
   late |-> \E i \in 1..Len(segs) : segs[i].speaker_id = source_speaker_id]

\* merge_speakers lines 311-318: the target's duration grows by the
\* source's, its file_count is the number of its association rows, the
\* source row is deleted.  early: the flush raises (a deleted association
\* whose speaker_insights child cannot be nulled); late: the commit raises
\* (segments still reference the deleted source).
MergeResult(D, source_speaker_id, target_speaker_id, segs, links, blocked) ==
  [db |-> [speakers |->
             SelectSeq([i \in 1..Len(D.speakers) |->
                          IF D.speakers[i].id = target_speaker_id
                          THEN [D.speakers[i] EXCEPT
                                  !.total_duration_seconds =
                                     get_speaker(D, target_speaker_id)
                                       .total_duration_seconds
                                     + get_speaker(D, source_speaker_id)
                                         .total_duration_seconds,
                                  !.file_count =
                                     Len(SelectSeq(links, LAMBDA r :
                                           r.speaker_id = target_speaker_id))]
                          ELSE D.speakers[i]],
                       LAMBDA r : r.id # source_speaker_id),
           segments |-> segs,
           links |-> links],
   early |-> blocked,
   late |-> \E i \in 1..Len(segs) : segs[i].speaker_id = source_speaker_id]

\* lines 290-309: the association loop and its deletions
MergeLinked(D, source_speaker_id, target_speaker_id, segs, m) ==
  MergeResult(D, source_speaker_id, target_speaker_id, segs,
              DropRows(m.links, 1, m.gone), m.blocked)

\* merge_speakers lines 285-318 on the session's view of the database:
\* the segments are reassigned in bulk, then the associations are merged.
MergeRows(D, source_speaker_id, target_speaker_id) ==
  MergeLinked(D, source_speaker_id, target_speaker_id,
    [i \in 1..Len(D.segments) |->
       IF D.segments[i].speaker_id = source_speaker_id
       THEN [D.segments[i] EXCEPT !.speaker_id = target_speaker_id]
       ELSE D.segments[i]],
    MergeAssocs(D.links, AssocsOf(D.links, 1, source_speaker_id), {}, FALSE,
                target_speaker_id))

\* DeleteRows without the deletion of the association rows
DeleteRowsKeepsLinks(D, speaker_id) ==
  [speakers |-> SelectSeq(D.speakers, LAMBDA r : r.id # speaker_id),
   segments |-> SelectSeq(D.segments, LAMBDA r : r.speaker_id # speaker_id),
   links |-> D.links]

\* delete_speaker lines 349-360
DeleteRows(D, speaker_id) ==
  [speakers |-> SelectSeq(D.speakers, LAMBDA r : r.id # speaker_id),
   segments |-> SelectSeq(D.segments, LAMBDA r : r.speaker_id # speaker_id),
   links |-> SelectSeq(D.links, LAMBDA r : r.speaker_id # speaker_id)]

(***************************************************************************)
(* State                                                                   *)
(***************************************************************************)
VARIABLES
  audio,      \* audio_files rows: id -> [processing_status, error_message]
  jobs,       \* processing_jobs row of each recording (status "absent": none)
  speakers,   \* speakers rows
  segments,   \* speaker_segments rows
  links,      \* speaker_audio_files rows
  disk,       \* the persisted index snapshot (index file + metadata file)
  wk,         \* per worker: position and locals of process_audio_file
  next_id,    \* the next fresh speaker id (uuid4)
  hash_seed,  \* the string-hash seed of the worker processes
  AUDIO_PIPELINE,  \* settings.AUDIO_PIPELINE, "unset" when not configured
  nproc,      \* number of workers that take tasks
  overlapped, \* an API request was served while a job was running
  runs,       \* orchestrator invocations so far
  apis,       \* API calls so far
  last        \* the operation that produced this state, its arguments,
              \* what it returned and, for resolver calls, the state before

vars == <<audio, jobs, speakers, segments, links, disk, wk, next_id,
          hash_seed, AUDIO_PIPELINE, nproc, overlapped, runs, apis, last>>

DB == [speakers |-> speakers, segments |-> segments, links |-> links]

SetDB(D) ==
  /\ speakers' = D.speakers
  /\ segments' = D.segments
  /\ links' = D.links

\* a ProcessingJob row with its column defaults
NewJob == [status |-> QUEUED, progress |-> 0, current_step |-> "",
           started_at |-> FALSE, completed_at |-> FALSE,
           error_message |-> "", result |-> <<>>]
NoJob == [NewJob EXCEPT !.status = "absent"]

IdleWorker ==
  [pc |-> "idle", audio_file_id |-> "", audio_file |-> FALSE,
   has_job |-> FALSE, job |-> NoJob, pipeline |-> "", segments |-> <<>>,
   speaker_mapping |-> <<>>, new_speakers |-> <<>>,
   speaker_durations |-> <<>>, i |-> 0, e |-> "", vs |-> EmptyStore]

\* After an upload: the recording and its job are QUEUED (main.py).  "r2"
\* is a recording that was inserted without a job row.
Init ==
  /\ audio = [r \in AudioFiles |->
                [processing_status |-> QUEUED, error_message |-> ""]]
  /\ jobs = [r \in AudioFiles |-> IF r = "r1" THEN NewJob ELSE NoJob]
  /\ speakers = <<>>
  /\ segments = <<>>
  /\ links = <<>>
  /\ disk = EmptyStore
  /\ wk = [w \in Workers |-> IdleWorker]
  /\ next_id = 1
  /\ hash_seed = 0
  /\ AUDIO_PIPELINE \in Pipelines \cup {"unset"}
  /\ nproc = 1
  /\ overlapped = FALSE
  /\ runs = 0
  /\ apis = 0
  /\ last = [op |-> "init"]

(***************************************************************************)
(* process_audio_file                                                      *)
(***************************************************************************)
Step(w, r) == wk' = [wk EXCEPT ![w] = r]

\* db.commit() of the worker's session: the session's job object is written
CommitJob(w, job) ==
  jobs' = [jobs EXCEPT ![wk[w].audio_file_id] = job]

\* an exception leaves the try block: control moves to the except clause
Raise(w, r, e) ==
  /\ Step(w, [r EXCEPT !.pc = "except", !.e = e])
  /\ last' = [op |-> "raise", e |-> e]

\* job.progress (and job.current_step) assignment followed by db.commit()
Milestone(w, at, current_step, progress, next) ==
  /\ wk[w].pc = at
  /\ LET job == [wk[w].job EXCEPT !.current_step = current_step,
                                  !.progress = progress]
     IN /\ Step(w, [wk[w] EXCEPT !.pc = next, !.job = job])
        /\ CommitJob(w, job)
  /\ last' = [op |-> "commit", at |-> at]
  /\ UNCHANGED <<audio, speakers, segments, links, disk, next_id,
                 hash_seed, AUDIO_PIPELINE, nproc, overlapped, runs, apis>>

\* LoadRecording that inserts a job row whether or not one exists
LoadRecordingAlwaysCreates(w, audio_file_id) ==
  /\ wk[w].pc = "idle"
  /\ w <= nproc
  /\ runs < MaxRuns
  /\ runs' = runs + 1
  /\ LET r == [IdleWorker EXCEPT !.audio_file_id = audio_file_id,
                                  !.vs = load_or_create_index(save(disk))]
     IN IF audio_file_id \notin AudioFiles
        THEN /\ Raise(w, r, "Audio file not found")
             /\ UNCHANGED jobs
        ELSE /\ Step(w, [r EXCEPT !.pc = "loaded", !.audio_file = TRUE,
                                  !.has_job = TRUE, !.job = NewJob])
             /\ jobs' = [jobs EXCEPT ![audio_file_id] = NewJob]
             /\ last' = [op |-> "load", audio_file_id |-> audio_file_id]
  /\ UNCHANGED <<audio, speakers, segments, links, disk, next_id,
                 hash_seed, AUDIO_PIPELINE, nproc, overlapped, apis>>

\* lines 37-60: open the session and the index, load the recording, get or
\* create its job row
LoadRecording(w, audio_file_id) ==
  /\ wk[w].pc = "idle"
  /\ w <= nproc
  /\ runs < MaxRuns
  /\ runs' = runs + 1
  /\ LET r == [IdleWorker EXCEPT !.audio_file_id = audio_file_id,
                                  !.vs = load_or_create_index(save(disk))]
     IN IF audio_file_id \notin AudioFiles
        THEN /\ Raise(w, r, "Audio file not found")
             /\ UNCHANGED jobs
        ELSE LET job == IF jobs[audio_file_id].status = "absent"
                        THEN NewJob ELSE jobs[audio_file_id]
             IN /\ Step(w, [r EXCEPT !.pc = "loaded", !.audio_file = TRUE,
                                     !.has_job = TRUE, !.job = job])
                /\ jobs' = [jobs EXCEPT ![audio_file_id] = job]
                /\ last' = [op |-> "load", audio_file_id |-> audio_file_id]
  /\ UNCHANGED <<audio, speakers, segments, links, disk, next_id,
                 hash_seed, AUDIO_PIPELINE, nproc, overlapped, apis>>

\* MarkProcessing with the status assignment left out
MarkProcessingKeepsStatus(w) ==
  /\ wk[w].pc = "loaded"
  /\ LET job == [wk[w].job EXCEPT !.started_at = TRUE,
                                  !.current_step = "initialization",
                                  !.progress = 0]
     IN /\ Step(w, [wk[w] EXCEPT !.pc = "select", !.job = job])
        /\ CommitJob(w, job)
  /\ audio' = [audio EXCEPT ![wk[w].audio_file_id].processing_status = PROCESSING]
  /\ last' = [op |-> "commit", at |-> "loaded"]
  /\ UNCHANGED <<speakers, segments, links, disk, next_id,
                 hash_seed, AUDIO_PIPELINE, nproc, overlapped, runs, apis>>

\* MarkProcessing without line 67: the recording keeps its status
MarkProcessingLeavesRecording(w) ==
  /\ wk[w].pc = "loaded"
  /\ LET job == [wk[w].job EXCEPT !.status = PROCESSING,
                                  !.started_at = TRUE,
                                  !.current_step = "initialization",
                                  !.progress = 0]
     IN /\ Step(w, [wk[w] EXCEPT !.pc = "select", !.job = job])
        /\ CommitJob(w, job)
  /\ last' = [op |-> "commit", at |-> "loaded"]
  /\ UNCHANGED <<audio, speakers, segments, links, disk, next_id,
                 hash_seed, AUDIO_PIPELINE, nproc, overlapped, runs, apis>>

\* lines 62-68
MarkProcessing(w) ==
  /\ wk[w].pc = "loaded"
  /\ LET job == [wk[w].job EXCEPT !.status = PROCESSING,
                                  !.started_at = TRUE,
                                  !.current_step = "initialization",
                                  !.progress = 0]
     IN /\ Step(w, [wk[w] EXCEPT !.pc = "select", !.job = job])
        /\ CommitJob(w, job)
  /\ audio' = [audio EXCEPT ![wk[w].audio_file_id].processing_status = PROCESSING]
  /\ last' = [op |-> "commit", at |-> "loaded"]
  /\ UNCHANGED <<speakers, segments, links, disk, next_id,
                 hash_seed, AUDIO_PIPELINE, nproc, overlapped, runs, apis>>

\* lines 70-85: settings.AUDIO_PIPELINE selects the variant; config.py does
\* not define the attribute, the read raises AttributeError when it is not
\* supplied ("unset").
SelectPipeline(w) ==
  /\ wk[w].pc = "select"
  /\ IF AUDIO_PIPELINE = "unset"
     THEN Raise(w, wk[w], "no attribute AUDIO_PIPELINE")
     ELSE /\ Step(w, [wk[w] EXCEPT
                 !.pipeline = AUDIO_PIPELINE,
                 !.pc = IF AUDIO_PIPELINE = "gemini" THEN "g_begin" ELSE "t_begin"])
          /\ last' = [op |-> "select", pipeline |-> AUDIO_PIPELINE]
  /\ UNCHANGED <<audio, jobs, speakers, segments, links, disk, next_id,
                 hash_seed, AUDIO_PIPELINE, nproc, overlapped, runs, apis>>

\* HandleFailure without lines 93-96: the job row keeps its status
HandleFailureLeavesJob(w) ==
  /\ wk[w].pc = "except"
  /\ LET r == wk[w]
     IN IF ~r.audio_file
        THEN /\ last' = [op |-> "process_audio_file",
                         audio_file_id |-> r.audio_file_id,
                         raised |-> TRUE, e |-> r.e, ret |-> "raised"]
             /\ UNCHANGED <<audio, jobs>>
        ELSE /\ audio' = [audio EXCEPT ![r.audio_file_id] =
                            [processing_status |-> FAILED,
                             error_message |-> r.e]]
             /\ IF r.has_job THEN CommitJob(w, r.job) ELSE UNCHANGED jobs
             /\ last' = [op |-> "process_audio_file",
                         audio_file_id |-> r.audio_file_id,
                         raised |-> TRUE, e |-> r.e, ret |-> "failure"]
  /\ wk' = [wk EXCEPT ![w] = IdleWorker]
  /\ UNCHANGED <<speakers, segments, links, disk, next_id,
                 hash_seed, AUDIO_PIPELINE, nproc, overlapped, runs, apis>>

\* HandleFailure that also purges the segments of the failed recording
HandleFailurePurges(w) ==
  /\ wk[w].pc = "except"
  /\ LET r == wk[w]
         job == IF r.has_job
                THEN [r.job EXCEPT !.status = FAILED,
                                   !.error_message = r.e,
                                   !.completed_at = TRUE]
                ELSE r.job
     IN /\ IF ~r.audio_file
           THEN /\ last' = [op |-> "process_audio_file",
                            audio_file_id |-> r.audio_file_id,
                            raised |-> TRUE, e |-> r.e, ret |-> "raised"]
                /\ UNCHANGED <<audio, jobs>>
           ELSE /\ audio' = [audio EXCEPT ![r.audio_file_id] =
                               [processing_status |-> FAILED,
                                error_message |-> r.e]]
                /\ IF r.has_job THEN CommitJob(w, job) ELSE UNCHANGED jobs
                /\ last' = [op |-> "process_audio_file",
                            audio_file_id |-> r.audio_file_id,
                            raised |-> TRUE, e |-> r.e, ret |-> "failure"]
        /\ segments' = SelectSeq(segments,
                          LAMBDA x : x.audio_file_id # r.audio_file_id)
  /\ wk' = [wk EXCEPT ![w] = IdleWorker]
  /\ UNCHANGED <<speakers, links, disk, next_id,
                 hash_seed, AUDIO_PIPELINE, nproc, overlapped, runs, apis>>

\* lines 89-111: the except clause.  'job' in locals() holds once line 49
\* has assigned it; 'audio_file' in locals() holds once line 44 has run,
\* also when the query returned None: the assignment to
\* audio_file.processing_status then raises AttributeError out of the
\* handler, nothing is committed and the session is closed.
HandleFailure(w) ==
  /\ wk[w].pc = "except"
  /\ LET r == wk[w]
         job == IF r.has_job
                THEN [r.job EXCEPT !.status = FAILED,
                                   !.error_message = r.e,
                                   !.completed_at = TRUE]
                ELSE r.job
     IN IF ~r.audio_file
        THEN /\ last' = [op |-> "process_audio_file",
                         audio_file_id |-> r.audio_file_id,
                         raised |-> TRUE, e |-> r.e, ret |-> "raised"]
             /\ UNCHANGED <<audio, jobs>>
        ELSE /\ audio' = [audio EXCEPT ![r.audio_file_id] =
                            [processing_status |-> FAILED,
                             error_message |-> r.e]]
             /\ IF r.has_job THEN CommitJob(w, job) ELSE UNCHANGED jobs
             /\ last' = [op |-> "process_audio_file",
                         audio_file_id |-> r.audio_file_id,
                         raised |-> TRUE, e |-> r.e, ret |-> "failure"]
  /\ wk' = [wk EXCEPT ![w] = IdleWorker]
  /\ UNCHANGED <<speakers, segments, links, disk, next_id,
                 hash_seed, AUDIO_PIPELINE, nproc, overlapped, runs, apis>>

(***************************************************************************)
(* SpeakerManager.identify_or_create_speaker                               *)
(***************************************************************************)
\* IdentifyWith that adds no embedding on a match
identify_without_record(D, vs, embedding, audio_file_id, segment_id, new_id, match) ==
  IF match.found
  THEN [db |-> D, vs |-> vs,
        speaker_id |-> match.speaker, is_new |-> FALSE]
  ELSE [db |-> create_speaker(D, new_id),
        vs |-> add_embedding(vs, embedding, new_id, segment_id, audio_file_id),
        speaker_id |-> new_id, is_new |-> TRUE]

\* lines 57-75: the two branches on the match
IdentifyWith(D, vs, embedding, audio_file_id, segment_id, new_id, match) ==
  IF match.found
  THEN [db |-> D,
        vs |-> add_embedding(vs, embedding, match.speaker, segment_id,
                             audio_file_id),
        speaker_id |-> match.speaker, is_new |-> FALSE]
  ELSE [db |-> create_speaker(D, new_id),
        vs |-> add_embedding(vs, embedding, new_id, segment_id, audio_file_id),
        speaker_id |-> new_id, is_new |-> TRUE]

\* lines 51-77 up to, not including, vector_store.save(): the database, the
\* in-memory index and the returned pair
identify_or_create_speaker(D, vs, embedding, audio_file_id, segment_id, new_id) ==
  IdentifyWith(D, vs, embedding, audio_file_id, segment_id, new_id,
    find_matching_speaker(vs, embedding, SPEAKER_SIMILARITY_THRESHOLD))

\* One call from a pipeline loop (lines 158-166, 374-382), res being what
\* identify_or_create_speaker computes.  create_speaker commits the
\* session, which also writes the pending job fields; save() writes the
\* snapshot or raises, leaving the snapshot as it was.
Resolved(w, label, embedding, save_ok, res) ==
  /\ SetDB(res.db)
  /\ next_id' = IF res.is_new THEN next_id + 1 ELSE next_id
  /\ IF res.is_new THEN CommitJob(w, wk[w].job) ELSE UNCHANGED jobs
  /\ disk' = IF save_ok THEN res.vs ELSE disk
  /\ Step(w, IF save_ok
             THEN [wk[w] EXCEPT
                     !.vs = res.vs,
                     !.speaker_mapping = DictPut(@, label, res.speaker_id),
                     !.new_speakers = IF res.is_new
                                      THEN Append(@, res.speaker_id) ELSE @,
                     !.i = @ + 1]
             ELSE [wk[w] EXCEPT !.vs = res.vs, !.pc = "except",
                                !.e = "Error saving index"])
  /\ last' = [op |-> "identify_or_create_speaker",
              embedding |-> embedding, raised |-> ~save_ok,
              speaker_id |-> res.speaker_id,
              is_new |-> res.is_new, w |-> w,
              pre |-> [db |-> DB, vs |-> wk[w].vs, disk |-> disk]]
  /\ UNCHANGED <<audio, hash_seed, AUDIO_PIPELINE, nproc, overlapped, runs,
                 apis>>

\* Resolve with the index read again from the snapshot before the search
ResolveReloadsIndex(w, label, embedding, segment_id, save_ok) ==
  Resolved(w, label, embedding, save_ok,
           identify_or_create_speaker(DB, disk, embedding,
                                      wk[w].audio_file_id, segment_id, next_id))

Resolve(w, label, embedding, segment_id, save_ok) ==
  Resolved(w, label, embedding, save_ok,
           identify_or_create_speaker(DB, wk[w].vs, embedding,
                                      wk[w].audio_file_id, segment_id, next_id))

(***************************************************************************)
(* _process_with_traditional_pipeline                                      *)
(***************************************************************************)
\* what the collaborator finds in a recording
Diarization(audio_file_id) == SubSeq(RecordedLabels(audio_file_id), 1, MaxSegs)

\* collaborator output: segment i lasts i seconds and starts where the
\* previous one ended
MakeSegments(labels) ==
  [i \in 1..Len(labels) |->
     [speaker_label |-> labels[i], start |-> (i * (i - 1)) \div 2,
      duration |-> i]]

Frame == <<audio, speakers, segments, links, disk, next_id,
           hash_seed, AUDIO_PIPELINE, nproc, overlapped, runs, apis>>

\* lines 339-350
TBegin(w) == Milestone(w, "t_begin", "diarization", 5, "t_diarize")

\* lines 352-357: the diarization collaborator returns segments or raises
TDiarize(w, ok) ==
  /\ wk[w].pc = "t_diarize"
  /\ IF ok
     THEN LET job == [wk[w].job EXCEPT !.progress = 15]
          IN /\ Step(w, [wk[w] EXCEPT !.pc = "t_embed", !.job = job,
                  !.segments = MakeSegments(Diarization(wk[w].audio_file_id))])
             /\ CommitJob(w, job)
             /\ last' = [op |-> "commit", at |-> "t_diarize"]
     ELSE /\ Raise(w, wk[w], "Diarization failed")
          /\ UNCHANGED jobs
  /\ UNCHANGED Frame

\* lines 359-364: extract_embeddings_batch never raises.  Only the
\* embedding of the first segment of each label is ever read; it is
\* computed where it is read, in TIdentify.
TEmbed(w) ==
  Milestone(w, "t_embed", wk[w].job.current_step, 25, "t_identify")

\* TIdentify without the look-up in speaker_mapping: every segment is
\* resolved
TIdentifyEverySegment(w, save_ok) ==
  /\ wk[w].pc = "t_identify"
  /\ wk[w].i < Len(wk[w].segments)
  /\ Resolve(w, wk[w].segments[wk[w].i + 1].speaker_label,
             RecordedVoice(wk[w].audio_file_id,
                           wk[w].segments[wk[w].i + 1].speaker_label),
             <<"temp", wk[w].segments[wk[w].i + 1].speaker_label>>, save_ok)

\* lines 369-382, one iteration of the loop
TIdentify(w, save_ok) ==
  /\ wk[w].pc = "t_identify"
  /\ wk[w].i < Len(wk[w].segments)
  /\ LET temp_label == wk[w].segments[wk[w].i + 1].speaker_label
     IN IF temp_label \in DictKeys(wk[w].speaker_mapping)
        THEN /\ Step(w, [wk[w] EXCEPT !.i = @ + 1])
             /\ last' = [op |-> "next", at |-> "t_identify"]
             /\ UNCHANGED <<jobs, Frame>>
        ELSE Resolve(w, temp_label,
                     RecordedVoice(wk[w].audio_file_id, temp_label),
                     <<"temp", temp_label>>, save_ok)

\* lines 386-387
TIdentified(w) ==
  /\ wk[w].i >= Len(wk[w].segments)
  /\ Milestone(w, "t_identify", wk[w].job.current_step, 33, "t_35")

\* T35 naming the step after the next one
T35NamesInsights(w) == Milestone(w, "t_35", "insights", 35, "t_transcribe")

\* lines 391-393
T35(w) == Milestone(w, "t_35", "transcription", 35, "t_transcribe")

\* lines 395-404: re-tag the segments, the transcription collaborator
\* returns them with text or raises
TTranscribe(w, ok) ==
  /\ wk[w].pc = "t_transcribe"
  /\ IF ok
     THEN LET job == [wk[w].job EXCEPT !.progress = 60]
              r == wk[w]
              tagged == [i \in 1..Len(r.segments) |->
                 [speaker_label |-> r.segments[i].speaker_label,
                  start |-> r.segments[i].start,
                  duration |-> r.segments[i].duration,
                  speaker_id |-> DictGet(r.speaker_mapping,
                                         r.segments[i].speaker_label, None)]]
          IN /\ Step(w, [r EXCEPT !.pc = "t_save", !.job = job,
                                  !.segments = tagged])
             /\ CommitJob(w, job)
             /\ last' = [op |-> "commit", at |-> "t_transcribe"]
     ELSE /\ Raise(w, wk[w], "Transcription failed")
          /\ UNCHANGED jobs
  /\ UNCHANGED Frame

\* the SpeakerSegment rows of the worker's segments
SegmentRows(r) ==
  [i \in 1..Len(r.segments) |->
     [audio_file_id |-> r.audio_file_id,
      speaker_id |-> r.segments[i].speaker_id,
      start_time |-> r.segments[i].start,
      duration |-> r.segments[i].duration]]

\* lines 406-420
TSaveSegments(w) ==
  /\ wk[w].pc = "t_save"
  /\ segments' = segments \o SegmentRows(wk[w])
  /\ Step(w, [wk[w] EXCEPT !.pc = "t_66"])
  /\ last' = [op |-> "commit", at |-> "t_save"]
  /\ UNCHANGED <<audio, jobs, speakers, links, disk, next_id,
                 hash_seed, AUDIO_PIPELINE, nproc, overlapped, runs, apis>>

\* T66 with a mistyped percentage
T66Lower(w) == Milestone(w, "t_66", wk[w].job.current_step, 56, "t_70")

\* lines 423-424
T66(w) == Milestone(w, "t_66", wk[w].job.current_step, 66, "t_70")

\* lines 428-430
T70(w) == Milestone(w, "t_70", "insights", 70, "t_conv")

RECURSIVE SumDuration(_, _)
SumDuration(segs, speaker_id) ==
  IF segs = <<>> THEN 0
  ELSE (IF Head(segs).speaker_id = speaker_id THEN Head(segs).duration ELSE 0)
       + SumDuration(Tail(segs), speaker_id)

CountSegments(segs, speaker_id) ==
  Len(SelectSeq(segs, LAMBDA x : x.speaker_id = speaker_id))

\* lines 461-467: dict of speaker id -> duration, keyed in the order of
\* speaker_mapping.values()
RECURSIVE TraditionalDurations(_, _, _)
TraditionalDurations(mapping, segs, acc) ==
  IF mapping = <<>> THEN acc
  ELSE TraditionalDurations(Tail(mapping), segs,
         DictPut(acc, Head(mapping)[2], SumDuration(segs, Head(mapping)[2])))

\* lines 432-467: generate_conversation_insights commits its row or rolls
\* the session back and re-raises; then progress 80
TConversation(w, ok) ==
  /\ wk[w].pc = "t_conv"
  /\ IF ok
     THEN LET job == [wk[w].job EXCEPT !.progress = 80]
              r == wk[w]
          IN /\ Step(w, [r EXCEPT !.pc = "t_stats", !.job = job, !.i = 0,
                    !.speaker_durations =
                       TraditionalDurations(r.speaker_mapping, r.segments, <<>>)])
             /\ CommitJob(w, job)
             /\ last' = [op |-> "commit", at |-> "t_conv"]
     ELSE /\ Raise(w, [wk[w] EXCEPT !.job = jobs[wk[w].audio_file_id]],
                   "Insight generation failed")
          /\ UNCHANGED jobs
  /\ UNCHANGED Frame

\* lines 469-471 and 256-258: update_speaker_stats for the next speaker of
\* speaker_durations
UpdateStats(w, at, next) ==
  /\ wk[w].pc = at
  /\ wk[w].i < Len(wk[w].speaker_durations)
  /\ LET r == wk[w]
         speaker_id == r.speaker_durations[r.i + 1][1]
         duration == r.speaker_durations[r.i + 1][2]
     IN /\ SetDB(update_speaker_stats(DB, speaker_id, r.audio_file_id, duration))
        /\ Step(w, [r EXCEPT !.pc = next])
        /\ CommitJob(w, r.job)
        /\ last' = [op |-> "update_speaker_stats", speaker_id |-> speaker_id,
                    audio_file_id |-> r.audio_file_id, duration |-> duration,
                    pre |-> DB]
  /\ UNCHANGED <<audio, disk, next_id, hash_seed, AUDIO_PIPELINE, nproc, overlapped, runs,
                 apis>>

\* lines 473-483 and 260-288: create_speaker_audio_association for the same
\* speaker; the single-call variant attaches a SpeakerInsight row to the new
\* association when the response has insights for the label
CreateLink(w, at, next, speaker_insight) ==
  /\ wk[w].pc = at
  /\ LET r == wk[w]
         speaker_id == r.speaker_durations[r.i + 1][1]
         duration == r.speaker_durations[r.i + 1][2]
         segment_count == CountSegments(r.segments, speaker_id)
         D == create_speaker_audio_association(DB, speaker_id,
                 r.audio_file_id, duration, segment_count)
     IN /\ SetDB([D EXCEPT !.links[Len(D.links)].speaker_insight =
                                 speaker_insight])
        /\ Step(w, [r EXCEPT !.pc = next, !.i = @ + 1])
        /\ CommitJob(w, r.job)
        /\ last' = [op |-> "create_speaker_audio_association",
                    speaker_id |-> speaker_id,
                    audio_file_id |-> r.audio_file_id,
                    duration |-> duration, segment_count |-> segment_count,
                    pre |-> DB]
  /\ UNCHANGED <<audio, disk, next_id, hash_seed, AUDIO_PIPELINE, nproc, overlapped, runs,
                 apis>>

TStats(w) == UpdateStats(w, "t_stats", "t_link")
TLink(w) == CreateLink(w, "t_link", "t_stats", FALSE)

\* lines 485-486
T85(w) ==
  /\ wk[w].i >= Len(wk[w].speaker_durations)
  /\ Milestone(w, "t_stats", wk[w].job.current_step, 85, "t_speaker")

\* generate_all_speaker_insights (insights_generator.py 144-201): for each
\* speaker it looks up the first association of (speaker, recording) and
\* attaches a SpeakerInsight row; an empty transcript, a missing association
\* or an LLM error skips the speaker without raising.  got is the set of
\* speakers that get a row, failed the set of speakers for which
\* generate_speaker_insights raised (the except clause of lines 196-198).
AttachInsights(rows, audio_file_id, got) ==
  [i \in 1..Len(rows) |->
     IF /\ rows[i].audio_file_id = audio_file_id
        /\ rows[i].speaker_id \in got
        /\ \A j \in 1..(i - 1) :
             ~(/\ rows[j].audio_file_id = audio_file_id
               /\ rows[j].speaker_id = rows[i].speaker_id)
     THEN [rows[i] EXCEPT !.speaker_insight = TRUE]
     ELSE rows[i]]

\* lines 488-498
TSpeakerInsights(w, got, failed) ==
  /\ wk[w].pc = "t_speaker"
  /\ got \subseteq DictKeys(wk[w].speaker_durations)
  /\ failed \subseteq DictKeys(wk[w].speaker_durations) \ got
  /\ \A id \in failed : HasLink(DB, id, wk[w].audio_file_id)
  /\ LET job == [wk[w].job EXCEPT !.progress = 95]
     IN /\ Step(w, [wk[w] EXCEPT !.pc = "t_final", !.job = job])
        /\ CommitJob(w, job)
  /\ links' = AttachInsights(links, wk[w].audio_file_id, got)
  /\ last' = [op |-> "generate_all_speaker_insights", w |-> w, got |-> got,
              failed |-> failed]
  /\ UNCHANGED <<audio, speakers, segments, disk, next_id,
                 hash_seed, AUDIO_PIPELINE, nproc, overlapped, runs, apis>>

\* Finalize with the number of segments reported as the number of new
\* speakers
FinalizeCountsSegments(w, at) ==
  /\ wk[w].pc = at
  /\ LET r == wk[w]
         result == [pipeline |-> r.pipeline,
                    speakers_detected |-> Len(r.speaker_mapping),
                    new_speakers |-> Len(r.segments),
                    segments_count |-> Len(r.segments)]
         job == [r.job EXCEPT !.current_step = "completed",
                              !.progress = 100,
                              !.status = COMPLETED,
                              !.completed_at = TRUE,
                              !.result = <<result>>]
     IN /\ CommitJob(w, job)
        /\ audio' = [audio EXCEPT
                       ![r.audio_file_id].processing_status = COMPLETED]
        /\ last' = [op |-> "process_audio_file",
                    audio_file_id |-> r.audio_file_id, raised |-> FALSE,
                    e |-> "", ret |-> "success",
                    new_speakers |-> r.new_speakers,
                    segments_count |-> Len(r.segments)]
  /\ wk' = [wk EXCEPT ![w] = IdleWorker]
  /\ UNCHANGED <<speakers, segments, links, disk, next_id,
                 hash_seed, AUDIO_PIPELINE, nproc, overlapped, runs, apis>>

\* Finalize without line 514: the recording keeps its status
FinalizeKeepsRecording(w, at) ==
  /\ wk[w].pc = at
  /\ LET r == wk[w]
         result == [pipeline |-> r.pipeline,
                    speakers_detected |-> Len(r.speaker_mapping),
                    new_speakers |-> Len(r.new_speakers),
                    segments_count |-> Len(r.segments)]
         job == [r.job EXCEPT !.current_step = "completed",
                              !.progress = 100,
                              !.status = COMPLETED,
                              !.completed_at = TRUE,
                              !.result = <<result>>]
     IN /\ CommitJob(w, job)
        /\ UNCHANGED audio
        /\ last' = [op |-> "process_audio_file",
                    audio_file_id |-> r.audio_file_id, raised |-> FALSE,
                    e |-> "", ret |-> "success",
                    new_speakers |-> r.new_speakers,
                    segments_count |-> Len(r.segments)]
  /\ wk' = [wk EXCEPT ![w] = IdleWorker]
  /\ UNCHANGED <<speakers, segments, links, disk, next_id,
                 hash_seed, AUDIO_PIPELINE, nproc, overlapped, runs, apis>>

\* lines 500-528 and 296-324: finalize and return
Finalize(w, at) ==
  /\ wk[w].pc = at
  /\ LET r == wk[w]
         result == [pipeline |-> r.pipeline,
                    speakers_detected |-> Len(r.speaker_mapping),
                    new_speakers |-> Len(r.new_speakers),
                    segments_count |-> Len(r.segments)]
         job == [r.job EXCEPT !.current_step = "completed",
                              !.progress = 100,
                              !.status = COMPLETED,
                              !.completed_at = TRUE,
                              !.result = <<result>>]
     IN /\ CommitJob(w, job)
        /\ audio' = [audio EXCEPT
                       ![r.audio_file_id].processing_status = COMPLETED]
        /\ last' = [op |-> "process_audio_file",
                    audio_file_id |-> r.audio_file_id, raised |-> FALSE,
                    e |-> "", ret |-> "success",
                    new_speakers |-> r.new_speakers,
                    segments_count |-> Len(r.segments)]
  /\ wk' = [wk EXCEPT ![w] = IdleWorker]
  /\ UNCHANGED <<speakers, segments, links, disk, next_id,
                 hash_seed, AUDIO_PIPELINE, nproc, overlapped, runs, apis>>

TFinal(w) == Finalize(w, "t_final")

(***************************************************************************)
(* _process_with_gemini_pipeline                                           *)
(***************************************************************************)
LabelOrder == <<"S0", "S1">>     \* sorted(speaker_ids)

\* generate_speaker_embeddings (gemini_audio_processor.py 441-475): a
\* Gaussian vector seeded with hash(label), normalised.  The vector depends
\* on the label and on the process's string-hash seed; different seeds and
\* labels give vectors far from each other and from extracted embeddings.
SyntheticEmbedding(label, seed) ==
  IF seed = 0
  THEN (IF label = "S0" THEN <<0, 1>> ELSE <<0, -1>>)
  ELSE (IF label = "S0" THEN <<-1, 0>> ELSE <<-3, 4>>)

SortedLabels(segs) ==
  SelectSeq(LabelOrder,
            LAMBDA l : \E i \in 1..Len(segs) : segs[i].speaker_label = l)

\* lines 125-131
GBegin(w) == Milestone(w, "g_begin", "gemini_processing", 5, "g_call")

\* lines 133-140: the single-call collaborator returns at least one segment
\* or raises (process_audio_file validates the response)
GCall(w, ok) ==
  /\ wk[w].pc = "g_call"
  /\ IF ok
     THEN /\ Diarization(wk[w].audio_file_id) # <<>>
          /\ LET job == [wk[w].job EXCEPT !.progress = 50]
             IN /\ Step(w, [wk[w] EXCEPT !.pc = "g_format", !.job = job,
                     !.segments = MakeSegments(Diarization(wk[w].audio_file_id))])
                /\ CommitJob(w, job)
                /\ last' = [op |-> "commit", at |-> "g_call"]
     ELSE /\ Raise(w, wk[w], "Gemini processing failed")
          /\ UNCHANGED jobs
  /\ UNCHANGED Frame

\* lines 143-151: format_for_traditional_pipeline raises KeyError on a
\* speakers entry without a name; progress 60 is committed and
\* current_step is assigned without a commit
GFormat(w, ok) ==
  /\ wk[w].pc = "g_format"
  /\ IF ok
     THEN LET job == [wk[w].job EXCEPT !.progress = 60]
          IN /\ Step(w, [wk[w] EXCEPT !.pc = "g_identify", !.i = 0,
                  !.job = [job EXCEPT !.current_step = "speaker_identification"]])
             /\ CommitJob(w, job)
             /\ last' = [op |-> "commit", at |-> "g_format"]
     ELSE /\ Raise(w, wk[w], "KeyError: 'name'")
          /\ UNCHANGED jobs
  /\ UNCHANGED Frame

\* GIdentify with the generator seeded per recording instead of per label
GIdentifySeedsByRecording(w, save_ok) ==
  /\ wk[w].pc = "g_identify"
  /\ wk[w].i < Len(SortedLabels(wk[w].segments))
  /\ LET gemini_speaker_id == SortedLabels(wk[w].segments)[wk[w].i + 1]
     IN Resolve(w, gemini_speaker_id,
                SyntheticEmbedding(gemini_speaker_id,
                                   IF wk[w].audio_file_id = "r1" THEN 0 ELSE 1),
                <<"name", gemini_speaker_id>>, save_ok)

\* lines 156-166, one iteration
GIdentify(w, save_ok) ==
  /\ wk[w].pc = "g_identify"
  /\ wk[w].i < Len(SortedLabels(wk[w].segments))
  /\ LET gemini_speaker_id == SortedLabels(wk[w].segments)[wk[w].i + 1]
     IN Resolve(w, gemini_speaker_id,
                SyntheticEmbedding(gemini_speaker_id, hash_seed),
                <<"name", gemini_speaker_id>>, save_ok)

\* the display name the collaborator detected for a label; it detects
\* names in recording "r1" only
DetectedName(label) == IF label = "S0" THEN 1000 ELSE 1001
Detected(audio_file_id) == audio_file_id = "r1"

\* lines 171-183: overwrite the names of the resolved speakers when the
\* collaborator reports detected names, then commit
GNames(w) ==
  /\ wk[w].pc = "g_identify"
  /\ wk[w].i >= Len(SortedLabels(wk[w].segments))
  /\ LET r == wk[w]
         named == {r.speaker_mapping[k][2] : k \in 1..Len(r.speaker_mapping)}
         NameOf(id) == DetectedName(
           r.speaker_mapping[SetMax({k \in 1..Len(r.speaker_mapping) :
                                   r.speaker_mapping[k][2] = id})][1])
     IN /\ speakers' = IF Detected(r.audio_file_id)
                       THEN [i \in 1..Len(speakers) |->
                              IF speakers[i].id \in named
                              THEN [speakers[i] EXCEPT !.name = NameOf(speakers[i].id)]
                              ELSE speakers[i]]
                       ELSE speakers
        /\ Step(w, [r EXCEPT !.pc = "g_70"])
        /\ CommitJob(w, r.job)
  /\ last' = [op |-> "commit", at |-> "g_names"]
  /\ UNCHANGED <<audio, segments, links, disk, next_id,
                 hash_seed, AUDIO_PIPELINE, nproc, overlapped, runs, apis>>

\* lines 186-187
G70(w) == Milestone(w, "g_70", wk[w].job.current_step, 70, "g_save")

\* lines 191-209
GSaveSegments(w) ==
  /\ wk[w].pc = "g_save"
  /\ LET r == wk[w]
         job == [r.job EXCEPT !.current_step = "saving_segments"]
         tagged == [i \in 1..Len(r.segments) |->
                 [speaker_label |-> r.segments[i].speaker_label,
                  start |-> r.segments[i].start,
                  duration |-> r.segments[i].duration,
                  speaker_id |-> DictGet(r.speaker_mapping,
                                         r.segments[i].speaker_label, None)]]
         r2 == [r EXCEPT !.pc = "g_80", !.job = job, !.segments = tagged]
     IN /\ segments' = segments \o SegmentRows(r2)
        /\ Step(w, r2)
        /\ CommitJob(w, job)
  /\ last' = [op |-> "commit", at |-> "g_save"]
  /\ UNCHANGED <<audio, speakers, links, disk, next_id,
                 hash_seed, AUDIO_PIPELINE, nproc, overlapped, runs, apis>>

\* lines 212-213
G80(w) == Milestone(w, "g_80", wk[w].job.current_step, 80, "g_conv")

\* lines 217-233
GConversation(w) ==
  Milestone(w, "g_conv", "saving_insights", wk[w].job.progress, "g_85")

\* lines 244-253: speaker id -> duration, keyed in the order the speakers
\* first appear in the segments
RECURSIVE GeminiDurations(_, _)
GeminiDurations(segs, acc) ==
  IF segs = <<>> THEN acc
  ELSE GeminiDurations(Tail(segs),
         DictPut(acc, Head(segs).speaker_id,
                 DictGet(acc, Head(segs).speaker_id, 0) + Head(segs).duration))

\* lines 237-253
G85(w) ==
  /\ wk[w].pc = "g_85"
  /\ LET job == [wk[w].job EXCEPT !.progress = 85]
     IN /\ Step(w, [wk[w] EXCEPT !.pc = "g_stats", !.job = job, !.i = 0,
               !.speaker_durations = GeminiDurations(wk[w].segments, <<>>)])
        /\ CommitJob(w, job)
  /\ last' = [op |-> "commit", at |-> "g_85"]
  /\ UNCHANGED Frame

GStats(w) == UpdateStats(w, "g_stats", "g_link")
GLink(w, speaker_insight) == CreateLink(w, "g_link", "g_stats", speaker_insight)

\* lines 290-294
G95(w) ==
  /\ wk[w].i >= Len(wk[w].speaker_durations)
  /\ Milestone(w, "g_stats", wk[w].job.current_step, 95, "g_final")

GFinal(w) == Finalize(w, "g_final")

(***************************************************************************)
(* API calls: POST /speakers/merge and DELETE /speakers/{id} (main.py).    *)
(* Each request builds SpeakerManager(db) with a VectorStore loaded from   *)
(* the snapshot.  fault names the step that raises: "save" the snapshot    *)
(* write (nothing is written), "commit" the final db.commit().             *)
(***************************************************************************)
Faults == {"none", "save", "commit"}

\* ids a client can send: the ids handed out so far and one unknown id
KnownIds == 1..next_id

\* the value merge_speakers returns, with the request, the state before and
\* vs, the request's own VectorStore as the call leaves it
MergeReturn(source_speaker_id, target_speaker_id, fault, ok, vs) ==
  last' = [op |-> "merge_speakers", source |-> source_speaker_id,
           target |-> target_speaker_id, ok |-> ok, fault |-> fault,
           pre |-> [db |-> DB, disk |-> disk], vs |-> vs]

\* lines 320-332: remove_speaker on the request's store vs, save, commit
MergeStored(source_speaker_id, target_speaker_id, fault, m, vs) ==
  IF fault = "save"
  THEN /\ MergeReturn(source_speaker_id, target_speaker_id, fault, FALSE, vs)
       /\ UNCHANGED <<speakers, segments, links, disk>>
  ELSE /\ disk' = vs
       /\ IF fault = "commit" \/ m.late
          THEN /\ MergeReturn(source_speaker_id, target_speaker_id, fault,
                              FALSE, vs)
               /\ UNCHANGED <<speakers, segments, links>>
          ELSE /\ MergeReturn(source_speaker_id, target_speaker_id, fault,
                              TRUE, vs)
               /\ SetDB(m.db)

\* lines 285-332 for two existing speakers, m being the merged rows
MergeExisting(source_speaker_id, target_speaker_id, fault, m) ==
  IF m.early
  THEN \* IntegrityError at the autoflush: rollback
       /\ fault = "none"
       /\ MergeReturn(source_speaker_id, target_speaker_id, fault, FALSE, disk)
       /\ UNCHANGED <<speakers, segments, links, disk>>
  ELSE MergeStored(source_speaker_id, target_speaker_id, fault, m,
                   remove_speaker(disk, source_speaker_id))

\* merge_speakers with the look-up of the two speakers moved behind the
\* removal from the index
merge_speakers_checks_late(source_speaker_id, target_speaker_id, fault) ==
  /\ apis < MaxApi
  /\ apis' = apis + 1
  /\ IF ~HasSpeaker(DB, source_speaker_id) \/ ~HasSpeaker(DB, target_speaker_id)
     THEN /\ fault = "none"
          /\ MergeReturn(source_speaker_id, target_speaker_id, fault, FALSE,
                         remove_speaker(disk, source_speaker_id))
          /\ disk' = remove_speaker(disk, source_speaker_id)
          /\ UNCHANGED <<speakers, segments, links>>
     ELSE MergeExisting(source_speaker_id, target_speaker_id, fault,
                        MergeRows(DB, source_speaker_id, target_speaker_id))
  /\ overlapped' = (overlapped \/ \E w \in Workers : wk[w].pc # "idle")
  /\ UNCHANGED <<audio, jobs, wk, next_id, hash_seed, AUDIO_PIPELINE, nproc,
                 runs>>

merge_speakers(source_speaker_id, target_speaker_id, fault) ==
  /\ apis < MaxApi
  /\ apis' = apis + 1
  /\ IF ~HasSpeaker(DB, source_speaker_id) \/ ~HasSpeaker(DB, target_speaker_id)
     THEN /\ fault = "none"
          /\ MergeReturn(source_speaker_id, target_speaker_id, fault, FALSE,
                         disk)
          /\ UNCHANGED <<speakers, segments, links, disk>>
     ELSE MergeExisting(source_speaker_id, target_speaker_id, fault,
                        MergeRows(DB, source_speaker_id, target_speaker_id))
  /\ overlapped' = (overlapped \/ \E w \in Workers : wk[w].pc # "idle")
  /\ UNCHANGED <<audio, jobs, wk, next_id, hash_seed, AUDIO_PIPELINE, nproc,
                 runs>>

\* the value delete_speaker returns, with the request, the state before and
\* vs, the request's own VectorStore as the call leaves it
DeleteReturn(speaker_id, fault, ok, vs) ==
  last' = [op |-> "delete_speaker", speaker_id |-> speaker_id, ok |-> ok,
           fault |-> fault, pre |-> [db |-> DB, disk |-> disk], vs |-> vs]

\* lines 348-374 for an existing speaker: remove_speaker on the request's
\* store vs, save, commit
DeleteExisting(speaker_id, fault, vs) ==
  IF fault = "save"
  THEN /\ DeleteReturn(speaker_id, fault, FALSE, vs)
       /\ UNCHANGED <<speakers, segments, links, disk>>
  ELSE /\ disk' = vs
       /\ IF fault = "commit"
          THEN /\ DeleteReturn(speaker_id, fault, FALSE, vs)
               /\ UNCHANGED <<speakers, segments, links>>
          ELSE /\ DeleteReturn(speaker_id, fault, TRUE, vs)
               /\ SetDB(DeleteRows(DB, speaker_id))

delete_speaker(speaker_id, fault) ==
  /\ apis < MaxApi
  /\ apis' = apis + 1
  /\ IF ~HasSpeaker(DB, speaker_id)
     THEN /\ fault = "none"
          /\ DeleteReturn(speaker_id, fault, FALSE, disk)
          /\ UNCHANGED <<speakers, segments, links, disk>>
     ELSE DeleteExisting(speaker_id, fault, remove_speaker(disk, speaker_id))
  /\ overlapped' = (overlapped \/ \E w \in Workers : wk[w].pc # "idle")
  /\ UNCHANGED <<audio, jobs, wk, next_id, hash_seed, AUDIO_PIPELINE, nproc,
                 runs>>

(***************************************************************************)
(* Specification                                                           *)
(***************************************************************************)
Next ==
  \/ \E w \in Workers :
       \/ \E id \in AudioIds : LoadRecording(w, id)
       \/ MarkProcessing(w)
       \/ SelectPipeline(w)
       \/ HandleFailure(w)
       \/ TBegin(w)
       \/ \E ok \in BOOLEAN : TDiarize(w, ok)
       \/ TEmbed(w)
       \/ \E save_ok \in BOOLEAN : TIdentify(w, save_ok)
       \/ TIdentified(w)
       \/ T35(w)
       \/ \E ok \in BOOLEAN : TTranscribe(w, ok)
       \/ TSaveSegments(w)
       \/ T66(w)
       \/ T70(w)
       \/ \E ok \in BOOLEAN : TConversation(w, ok)
       \/ TStats(w)
       \/ TLink(w)
       \/ T85(w)
       \/ \E got \in SUBSET (1..next_id), failed \in SUBSET (1..next_id) :
            TSpeakerInsights(w, got, failed)
       \/ TFinal(w)
       \/ GBegin(w)
       \/ \E ok \in BOOLEAN : GCall(w, ok)
       \/ \E ok \in BOOLEAN : GFormat(w, ok)
       \/ \E save_ok \in BOOLEAN : GIdentify(w, save_ok)
       \/ GNames(w)
       \/ G70(w)
       \/ GSaveSegments(w)
       \/ G80(w)
       \/ GConversation(w)
       \/ G85(w)
       \/ GStats(w)
       \/ \E ins \in BOOLEAN : GLink(w, ins)
       \/ G95(w)
       \/ GFinal(w)
  \/ \E s \in KnownIds, f \in Faults : delete_speaker(s, f)
  \/ \E s \in KnownIds, t \in KnownIds, f \in Faults : merge_speakers(s, t, f)

Spec == Init /\ [][Next]_vars

\* worker w is at the head of an identification loop with a label left
\* (process_audio.py:156, 369)
InIdentifyLoop(w) ==
  \/ wk[w].pc = "t_identify" /\ wk[w].i < Len(wk[w].segments)
  \/ wk[w].pc = "g_identify" /\ wk[w].i < Len(SortedLabels(wk[w].segments))

\* one iteration of an identification loop of worker w
LoopStep(w) ==
  \E save_ok \in BOOLEAN : TIdentify(w, save_ok) \/ GIdentify(w, save_ok)

\* any other step of the invocation that worker w is running
JobStep(w) ==
  /\ wk[w].pc /= "idle"
  /\ ~InIdentifyLoop(w)
  /\ Next
  /\ wk'[w] /= wk[w]

\* A worker process that has taken a task keeps executing it, and every
\* collaborator call returns or raises: the next step of a running
\* invocation is eventually taken.  A loop iteration is enabled exactly
\* when InIdentifyLoop holds, so its weak fairness is written out.
FairSpec ==
  /\ Spec
  /\ \A w \in Workers : WF_vars(JobStep(w))
  /\ \A w \in Workers : []<>(~InIdentifyLoop(w)) \/ []<><<LoopStep(w)>>_vars

(***************************************************************************)
(* Two worker processes                                                    *)
(***************************************************************************)
\* Two uploads are queued and two worker processes take tasks (a Celery
\* worker forks one process per core; each process runs one task at a time,
\* celery_app.py:23).  The staged pipeline is configured.
ConcurrentInit ==
  /\ audio = [r \in AudioFiles |->
                [processing_status |-> QUEUED, error_message |-> ""]]
  /\ jobs = [r \in AudioFiles |-> NewJob]
  /\ speakers = <<>>
  /\ segments = <<>>
  /\ links = <<>>
  /\ disk = EmptyStore
  /\ wk = [w \in Workers |-> IdleWorker]
  /\ next_id = 1
  /\ hash_seed = 0
  /\ AUDIO_PIPELINE = "traditional"
  /\ nproc = 2
  /\ overlapped = FALSE
  /\ runs = 0
  /\ apis = 0
  /\ last = [op |-> "init"]

\* the task a process takes from the queue: each task is delivered to one
\* process
TaskOf(w) == IF w = 1 THEN "r1" ELSE "r2"

\* The steps of the two processes interleave.  A call of
\* identify_or_create_speaker is one step: no step of the other process
\* falls between its search, its insertion and its save().
ConcurrentNext ==
  \E w \in Workers :
    \/ LoadRecording(w, TaskOf(w))
    \/ MarkProcessing(w)
    \/ SelectPipeline(w)
    \/ HandleFailure(w)
    \/ TBegin(w)
    \/ \E ok \in BOOLEAN : TDiarize(w, ok)
    \/ TEmbed(w)
    \/ \E save_ok \in BOOLEAN : TIdentify(w, save_ok)
    \/ TIdentified(w)
    \/ T35(w)
    \/ \E ok \in BOOLEAN : TTranscribe(w, ok)
    \/ TSaveSegments(w)
    \/ T66(w)
    \/ T70(w)
    \/ \E ok \in BOOLEAN : TConversation(w, ok)
    \/ TStats(w)
    \/ TLink(w)
    \/ T85(w)
    \/ \E got \in SUBSET (1..next_id), failed \in SUBSET (1..next_id) :
         TSpeakerInsights(w, got, failed)
    \/ TFinal(w)

ConcurrentSpec == ConcurrentInit /\ [][ConcurrentNext]_vars

(***************************************************************************)
(* Properties                                                              *)
(***************************************************************************)
\* the queries tried against the index
Queries == Embeddings \cup {SyntheticEmbedding(l, 0) : l \in Labels}

\* C1 (as stated): over any sequence of invocations for a recording, the
\* job status only moves QUEUED -> PROCESSING -> COMPLETED or FAILED, and a
\* COMPLETED or FAILED status never changes again.
C1_StatusTerminal ==
  [][\A r \in AudioFiles :
       \/ jobs'[r].status = jobs[r].status
       \/ jobs[r].status = "absent" /\ jobs'[r].status = QUEUED
       \/ jobs[r].status = QUEUED /\ jobs'[r].status = PROCESSING
       \/ /\ jobs[r].status = PROCESSING
          /\ jobs'[r].status \in {COMPLETED, FAILED}]_vars

\* C1 (amended): the job status only moves QUEUED -> PROCESSING ->
\* COMPLETED or FAILED, and a COMPLETED or FAILED status changes only when a
\* later invocation for the same recording re-enters initialization, which
\* sets it to PROCESSING.
C1_StatusMovesForward ==
  [][\A r \in AudioFiles :
       \/ jobs'[r].status = jobs[r].status
       \/ jobs[r].status = "absent" /\ jobs'[r].status = QUEUED
       \/ jobs[r].status = QUEUED /\ jobs'[r].status = PROCESSING
       \/ /\ jobs[r].status = PROCESSING
          /\ jobs'[r].status \in {COMPLETED, FAILED}
       \/ /\ jobs[r].status \in {COMPLETED, FAILED}
          /\ jobs'[r].status = PROCESSING
          /\ jobs'[r].current_step = "initialization"
          /\ jobs'[r].progress = 0
          /\ \E w \in Workers : /\ wk[w].pc = "loaded"
                                /\ wk[w].audio_file_id = r
                                /\ wk'[w].pc = "select"]_vars

\* a job that finished once is PROCESSING again
C1_Witness ==
  \E r \in AudioFiles : /\ jobs[r].status = PROCESSING
                        /\ jobs[r].completed_at
                        /\ runs = 2

\* C2: within one invocation, in both variants, every committed progress
\* value is in 0..100 and not below the previously committed one while the
\* status is PROCESSING.
C2_ProgressMonotone ==
  [][\A r \in AudioFiles :
       /\ jobs'[r].progress \in 0..100
       /\ (jobs[r].status = PROCESSING /\ jobs'[r].status = PROCESSING)
          => jobs'[r].progress >= jobs[r].progress]_vars

\* a staged job has committed its way up to 95 percent
C2_Witness ==
  \E w \in Workers : /\ wk[w].pc = "t_final"
                     /\ jobs[wk[w].audio_file_id].status = PROCESSING
                     /\ jobs[wk[w].audio_file_id].progress = 95

\* C3: if a step of an invocation raises, then at the end of the call the
\* job is FAILED with the error's description and a completion timestamp,
\* the recording is FAILED with the same message, both committed, and the
\* call returns a failure result instead of raising.
C3_FailureRecorded ==
  (last.op = "process_audio_file" /\ last.raised) =>
    /\ last.ret = "failure"
    /\ last.audio_file_id \in AudioFiles =>
         /\ jobs[last.audio_file_id].status = FAILED
         /\ jobs[last.audio_file_id].error_message = last.e
         /\ jobs[last.audio_file_id].completed_at
         /\ audio[last.audio_file_id] =
              [processing_status |-> FAILED, error_message |-> last.e]

\* C4: for a recording id without a row the call aborts at once, changes
\* no job row and no recording row, and returns a failure result rather
\* than raising out of the error handler.
C4_NotFoundReturnsFailure ==
  [][\A w \in Workers :
       /\ (/\ wk[w].pc = "idle"
           /\ wk'[w].pc # "idle"
           /\ wk'[w].audio_file_id \notin AudioFiles)
          => (wk'[w].pc = "except" /\ UNCHANGED <<jobs, audio>>)
       /\ (wk[w].pc # "idle" /\ wk[w].audio_file_id \notin AudioFiles)
          => /\ UNCHANGED <<jobs, audio>>
             /\ wk'[w].pc = "idle" => last'.ret = "failure"]_vars

\* C5: when a job fails at a step, every identity, embedding record,
\* segment and link committed before is still there after the raise and
\* after the failure handler, and the job is FAILED with a non-empty error
\* message.
C5_FailureKeepsCommittedWork ==
  [][\A w \in Workers :
       /\ (wk[w].pc # "except" /\ wk'[w].pc = "except")
          => /\ SubSeq(speakers', 1, Len(speakers)) = speakers
             /\ SubSeq(segments', 1, Len(segments)) = segments
             /\ SubSeq(links', 1, Len(links)) = links
             /\ disk' = disk
       /\ (wk[w].pc = "except" /\ wk[w].has_job /\ wk'[w].pc = "idle")
          => /\ UNCHANGED <<speakers, segments, links, disk>>
             /\ jobs'[wk[w].audio_file_id].status = FAILED
             /\ jobs'[wk[w].audio_file_id].error_message # ""]_vars

\* a second run of a recording has failed after its segments were saved,
\* with identities, records, segments and links of the first run in place
C5_Witness ==
  /\ last.op = "process_audio_file"
  /\ last.raised
  /\ last.e = "Insight generation failed"
  /\ jobs[last.audio_file_id].status = FAILED
  /\ \E i \in 1..Len(segments) : segments[i].audio_file_id = last.audio_file_id
  /\ speakers # <<>>
  /\ links # <<>>
  /\ disk.index # <<>>

\* C6: an identify_or_create_speaker call that returns has added exactly
\* one embedding record, attributed to the returned id; on a match it
\* creates no identity and returns is_new = false with the matched id, on a
\* miss it creates exactly one identity and returns is_new = true with the
\* new id.
C6_IdentifyAddsOneRecord ==
  (last.op = "identify_or_create_speaker" /\ ~last.raised) =>
    LET before == last.pre.vs
        after == wk[last.w].vs
        rows == last.pre.db.speakers
        match == find_matching_speaker(before, last.embedding,
                                       SPEAKER_SIMILARITY_THRESHOLD)
    IN /\ get_total_embeddings(after) = get_total_embeddings(before) + 1
       /\ Len(after.metadata) = Len(before.metadata) + 1
       /\ SubSeq(after.metadata, 1, Len(before.metadata)) = before.metadata
       /\ after.metadata[Len(after.metadata)].speaker_id = last.speaker_id
       /\ ~after.metadata[Len(after.metadata)].deleted
       /\ get_speaker_embeddings_count(after, last.speaker_id) =
            get_speaker_embeddings_count(before, last.speaker_id) + 1
       /\ disk = after
       /\ IF match.found
          THEN /\ ~last.is_new
               /\ last.speaker_id = match.speaker
               /\ speakers = rows
          ELSE /\ last.is_new
               /\ Len(speakers) = Len(rows) + 1
               /\ SubSeq(speakers, 1, Len(rows)) = rows
               /\ speakers[Len(speakers)].id = last.speaker_id
               /\ ~HasSpeaker(last.pre.db, last.speaker_id)

\* a call has matched an identity that was there before
C6_Witness ==
  /\ last.op = "identify_or_create_speaker"
  /\ ~last.raised
  /\ ~last.is_new
  /\ HasSpeaker(last.pre.db, last.speaker_id)

\* C7: in every state reached by calls served one after the other (no API
\* request during a running job) the number of records that are not
\* tombstoned equals the sum, over the identities in the store, of the
\* records attributed to them: no live record is attributed to a deleted or
\* merged identity.
C7_LiveRecordsHaveIdentities ==
  ~overlapped =>
  LET live == {p \in 1..Len(disk.metadata) : ~disk.metadata[p].deleted}
      attributed == {<<id, k>> \in SpeakerIds(DB) \X (1..Len(disk.metadata)) :
                       k <= get_speaker_embeddings_count(disk, id)}
  IN /\ Cardinality(live) = Cardinality(attributed)
     /\ \A p \in live : HasSpeaker(DB, disk.metadata[p].speaker_id)

\* C8: once the records of an id are tombstoned and no record has been
\* added under it since, search and find_matching_speaker return the id for
\* no query.
C8_TombstonedNeverReturned ==
  \A id \in 1..next_id :
    LET recs == {p \in 1..Len(disk.metadata) :
                   disk.metadata[p].speaker_id = id}
    IN (recs # {} /\ \A p \in recs : disk.metadata[p].deleted) =>
         \A q \in Queries :
           LET results == search(disk, q, SearchDepth)
           IN /\ \A i \in 1..Len(results) : results[i].speaker_id # id
              /\ find_matching_speaker(disk, q, SPEAKER_SIMILARITY_THRESHOLD)
                   .speaker # id

RECURSIVE LinkTotals(_, _, _)
LinkTotals(rows, speaker_id, audio_file_id) ==
  IF rows = <<>> THEN [duration |-> 0, count |-> 0]
  ELSE LET rest == LinkTotals(Tail(rows), speaker_id, audio_file_id)
           row == Head(rows)
       IN IF row.speaker_id = speaker_id /\ row.audio_file_id = audio_file_id
          THEN [duration |-> rest.duration + row.total_speech_duration,
                count |-> rest.count + row.segment_count]
          ELSE rest

\* C10: after a successful merge no link references the source; for every
\* recording the target's link duration and segment count are the sums of
\* what the two held before; the target's file_count is the number of
\* distinct recordings it is linked to.
C10_MergeLinks ==
  (/\ last.op = "merge_speakers"
   /\ last.ok
   /\ last.source # last.target
   /\ ~overlapped) =>
    /\ \A i \in 1..Len(links) : links[i].speaker_id # last.source
    /\ \A r \in AudioFiles :
         LET now == LinkTotals(links, last.target, r)
             s == LinkTotals(last.pre.db.links, last.source, r)
             t == LinkTotals(last.pre.db.links, last.target, r)
         IN /\ now.duration = s.duration + t.duration
            /\ now.count = s.count + t.count
    /\ HasSpeaker(DB, last.target)
    /\ get_speaker(DB, last.target).file_count =
         Cardinality({r \in AudioFiles : HasLink(DB, last.target, r)})

\* C11: when merge_speakers or delete_speaker reports failure, the speakers,
\* segments and links, the tombstones of the request's in-memory index and
\* the persisted snapshot are all as they were before the call; and a call
\* in which the snapshot write or the commit raised reports failure.
C11_FailureRevertsEverything ==
  (last.op \in {"merge_speakers", "delete_speaker"}) =>
    /\ (last.fault # "none" => ~last.ok)
    /\ (~last.ok => /\ DB = last.pre.db
                    /\ disk = last.pre.disk
                    /\ last.vs.metadata = last.pre.disk.metadata)

\* C12: after delete_speaker(id) returns True no segment row, no link row and
\* no record of the index that is not tombstoned references id, the speaker
\* row is gone and id is not a key of speaker_to_indices (in the request's
\* store and in the snapshot); delete_speaker of an id without a speaker row
\* returns False and changes nothing.
C12_DeleteIsTotal ==
  (last.op = "delete_speaker") =>
    /\ last.ok =>
         /\ HasSpeaker(last.pre.db, last.speaker_id)
         /\ ~HasSpeaker(DB, last.speaker_id)
         /\ \A i \in 1..Len(segments) :
              segments[i].speaker_id # last.speaker_id
         /\ \A i \in 1..Len(links) : links[i].speaker_id # last.speaker_id
         /\ \A vs \in {disk, last.vs} :
              /\ \A p \in 1..Len(vs.metadata) :
                   vs.metadata[p].speaker_id = last.speaker_id
                   => vs.metadata[p].deleted
              /\ last.speaker_id \notin DictKeys(vs.speaker_to_indices)
    /\ ~HasSpeaker(last.pre.db, last.speaker_id) =>
         /\ ~last.ok
         /\ DB = last.pre.db
         /\ disk = last.pre.disk
         /\ last.vs = last.pre.disk

\* a speaker with segments, an association and a record has been deleted
C12_Witness ==
  /\ last.op = "delete_speaker"
  /\ last.ok
  /\ \E i \in 1..Len(last.pre.db.segments) :
       last.pre.db.segments[i].speaker_id = last.speaker_id
  /\ HasLink(last.pre.db, last.speaker_id, "r1")
  /\ get_speaker_embeddings_count(last.pre.disk, last.speaker_id) > 0
  /\ Len(speakers) > 0

\* C13: after any sequence of create_speaker_audio_association calls, job
\* runs and merges there is at most one speaker_audio_files row per
\* (speaker, recording) pair (in serial runs: no API request served during
\* a running job).
C13_OneLinkPerPair ==
  ~overlapped =>
  \A i \in 1..Len(links), j \in 1..Len(links) :
    (/\ links[i].speaker_id = links[j].speaker_id
     /\ links[i].audio_file_id = links[j].audio_file_id) => i = j

\* C14: update_speaker_stats(id, recording, d) on an existing speaker adds d
\* to its total_duration_seconds and adds 1 to its file_count exactly when no
\* association row of (id, recording) exists at the call, leaving the count
\* otherwise; every other row is untouched; for an id without a speaker row
\* nothing changes.
C14_UpdateStats ==
  (last.op = "update_speaker_stats") =>
    /\ segments = last.pre.segments
    /\ links = last.pre.links
    /\ Len(speakers) = Len(last.pre.speakers)
    /\ \A i \in 1..Len(speakers) :
         IF last.pre.speakers[i].id = last.speaker_id
         THEN speakers[i] =
                [last.pre.speakers[i] EXCEPT
                   !.total_duration_seconds = @ + last.duration,
                   !.file_count =
                      IF \E k \in 1..Len(last.pre.links) :
                           /\ last.pre.links[k].speaker_id = last.speaker_id
                           /\ last.pre.links[k].audio_file_id =
                                last.audio_file_id
                      THEN @ ELSE @ + 1]
         ELSE speakers[i] = last.pre.speakers[i]

\* update_speaker_stats has run for a pair that already has an association
\* row
C14_Witness ==
  /\ last.op = "update_speaker_stats"
  /\ last.duration > 0
  /\ HasSpeaker(last.pre, last.speaker_id)
  /\ HasLink(last.pre, last.speaker_id, last.audio_file_id)
  /\ get_speaker(DB, last.speaker_id).file_count =
       get_speaker(last.pre, last.speaker_id).file_count

\* C15: merge_speakers(source, target) with a source or a target that has no
\* speaker row returns False and leaves speakers, segments, associations,
\* the request's index and the snapshot as they were.
C15_MergeOfMissingIsNoOp ==
  (/\ last.op = "merge_speakers"
   /\ \/ ~HasSpeaker(last.pre.db, last.source)
      \/ ~HasSpeaker(last.pre.db, last.target)) =>
    /\ ~last.ok
    /\ DB = last.pre.db
    /\ disk = last.pre.disk
    /\ last.vs = last.pre.disk

\* a speaker with records in the index was to be merged into an id that no
\* speaker row carries
C15_Witness ==
  /\ last.op = "merge_speakers"
  /\ HasSpeaker(last.pre.db, last.source)
  /\ ~HasSpeaker(last.pre.db, last.target)
  /\ get_speaker_embeddings_count(last.pre.disk, last.source) > 0
  /\ \E i \in 1..Len(segments) : segments[i].speaker_id = last.source

\* C16: after rebuild_index the index holds exactly the records that were
\* not tombstoned before: get_total_embeddings is their number and no
\* tombstoned record remains.
C16_RebuildKeepsLiveOnly ==
  LET after == rebuild_index(disk)
      live == {p \in 1..Len(disk.metadata) : ~disk.metadata[p].deleted}
  IN /\ get_total_embeddings(after) = Cardinality(live)
     /\ \A p \in 1..Len(after.metadata) : ~after.metadata[p].deleted

\* C17: remove_speaker(id) tombstones every position of id's list, removes
\* id from speaker_to_indices, leaves get_total_embeddings and the vectors
\* as they are, and leaves the metadata and the position lists of every
\* other speaker unchanged; for an id that is not a key it changes nothing.
C17_RemoveSpeakerFrame ==
  \A id \in 1..next_id :
    LET after == remove_speaker(disk, id)
        idxs == DictGet(disk.speaker_to_indices, id, <<>>)
        owned == {idxs[i] + 1 : i \in 1..Len(idxs)}
    IN IF id \in DictKeys(disk.speaker_to_indices)
       THEN /\ \A p \in owned : after.metadata[p].deleted
            /\ id \notin DictKeys(after.speaker_to_indices)
            /\ DictKeys(after.speaker_to_indices) =
                 DictKeys(disk.speaker_to_indices) \ {id}
            /\ get_total_embeddings(after) = get_total_embeddings(disk)
            /\ after.index = disk.index
            /\ Len(after.metadata) = Len(disk.metadata)
            /\ \A p \in 1..Len(disk.metadata) :
                 (p \notin owned \/ disk.metadata[p].speaker_id # id)
                 => after.metadata[p] = disk.metadata[p]
            /\ \A p \in owned :
                 after.metadata[p] = [disk.metadata[p] EXCEPT !.deleted = TRUE]
            /\ \A k \in DictKeys(disk.speaker_to_indices) \ {id} :
                 DictGet(after.speaker_to_indices, k, <<>>) =
                   DictGet(disk.speaker_to_indices, k, <<>>)
       ELSE after = disk

\* remove_speaker has tombstoned the records of one speaker in a store that
\* also holds live records of another speaker
C17_Witness ==
  /\ last.op \in {"delete_speaker", "merge_speakers"}
  /\ last.vs # last.pre.disk
  /\ disk = last.vs
  /\ Len(disk.speaker_to_indices) >= 1
  /\ \E p \in 1..Len(disk.metadata) : disk.metadata[p].deleted
  /\ \E p \in 1..Len(disk.metadata) : ~disk.metadata[p].deleted

Thresholds == {-100, 0, 60, 85, 100}

\* the speakers of the top-10 hits whose mean similarity no other reaches
HighestMean(groups) ==
  {i \in 1..Len(groups) :
     \A j \in 1..Len(groups) : ~MeanGT(groups[j][2], groups[i][2])}

\* C19: for every store, query and threshold find_matching_speaker returns
\* (X, m) exactly when X is the speaker with the highest mean similarity
\* among the top-10 hits, m is that mean and m >= threshold; otherwise it
\* returns None; it never returns a result without a speaker.
C19_FindMatch ==
  \A q \in Queries, t \in Thresholds :
    LET groups == GroupBySpeaker(search(disk, q, SearchDepth), <<>>)
        top == {i \in HighestMean(groups) : MeanGE(groups[i][2], t)}
        r == find_matching_speaker(disk, q, t)
    IN /\ r.found <=> top # {}
       /\ r.found => /\ r.speaker # None
                      /\ \E i \in top :
                           /\ r.speaker = groups[i][1]
                           /\ r.similarity = groups[i][2]

\* C20: for a fixed store and query and two thresholds t1 <= t2 between 0
\* and 1.0 (0 included), a match returned with t2 is returned with t1 as
\* well: raising the threshold never turns None into a match.
C20_ThresholdMonotone ==
  \A q \in Queries, t1 \in Thresholds, t2 \in Thresholds :
    (0 <= t1 /\ t1 <= t2 /\ find_matching_speaker(disk, q, t2).found) =>
      find_matching_speaker(disk, q, t1) = find_matching_speaker(disk, q, t2)

\* the values of k tried
SearchKs == {1, 2, DefaultK, SearchDepth}

\* C21: search(query, k) on an empty index returns the empty list; on any
\* other index it returns at most min(k, get_total_embeddings) results, in
\* order of non-increasing similarity, each similarity between -1.0 and 1.0.
C21_Search ==
  \A q \in Queries, k \in SearchKs :
    LET results == search(disk, q, k)
    IN IF get_total_embeddings(disk) = 0
       THEN results = <<>>
       ELSE /\ Len(results) <= Min(k, get_total_embeddings(disk))
            /\ \A i \in 1..Len(results) :
                 /\ results[i].similarity \in -100..100
                 /\ i > 1 => results[i - 1].similarity >= results[i].similarity

\* identify_or_create_speaker has searched a store whose second record is
\* closer to the query than its first
C21_Witness ==
  /\ last.op = "identify_or_create_speaker"
  /\ Len(last.pre.vs.index) >= 2
  /\ InnerProduct(last.pre.vs.index[2], NormalizeL2(last.embedding)) >
       InnerProduct(last.pre.vs.index[1], NormalizeL2(last.embedding))

\* the steps a job goes through and the progress values of each
StepOrder ==
  <<"initialization", "diarization", "transcription", "insights", "completed">>

\* the place of a step name in StepOrder; 0 for a job that has no step yet
\* and for any other name
StepIndex(current_step) ==
  IF \E i \in 1..Len(StepOrder) : StepOrder[i] = current_step
  THEN CHOOSE i \in 1..Len(StepOrder) : StepOrder[i] = current_step
  ELSE 0

StepRange(current_step) ==
  CASE current_step = "" -> {0}
    [] current_step = "initialization" -> {0}
    [] current_step = "diarization" -> 5..33
    [] current_step = "transcription" -> 35..66
    [] current_step = "insights" -> 70..95
    [] current_step = "completed" -> {100}
    [] OTHER -> {}

\* every committed job row names a step of StepOrder (or none yet) with a
\* progress of that step's range, and a commit either keeps the step, moves
\* to the next one, or starts a new invocation at initialization
StepsInOrder ==
  \A r \in AudioFiles :
    /\ jobs'[r].progress \in StepRange(jobs'[r].current_step)
    /\ \/ StepIndex(jobs'[r].current_step) = StepIndex(jobs[r].current_step)
       \/ StepIndex(jobs'[r].current_step) =
            StepIndex(jobs[r].current_step) + 1
       \/ /\ jobs[r].status # PROCESSING
          /\ jobs'[r].current_step = "initialization"

\* C22: in the staged variant the committed values of current_step form a
\* prefix of initialization, diarization, transcription, insights,
\* completed, and every committed progress lies in the range of its step:
\* 0, 5..33, 35..66, 70..95, 100.
C22_StagedSteps ==
  [][AUDIO_PIPELINE = "traditional" => StepsInOrder]_vars

\* a staged job has gone through all the steps
C22_Witness ==
  /\ AUDIO_PIPELINE = "traditional"
  /\ jobs["r1"].status = COMPLETED
  /\ jobs["r1"].current_step = "completed"
  /\ last.op = "process_audio_file"

\* C23: the single-call variant shows the same steps as the staged one:
\* every committed current_step is one of initialization, diarization,
\* transcription, insights, completed, in that order, with the same
\* progress ranges.
C23_SingleCallSteps ==
  [][AUDIO_PIPELINE = "gemini" => StepsInOrder]_vars

\* one step of worker w in the staged variant.  An iteration of the
\* identification loop calls identify_or_create_speaker (the index grows by
\* one record, the label is entered in speaker_mapping with the id returned)
\* exactly when the label of its segment is not in speaker_mapping yet, and
\* otherwise touches neither; when the loop is left every label has an
\* entry; the rows saved are one per segment, in order, each with the id
\* that speaker_mapping holds for the segment's label.
StagedResolution(w) ==
  /\ (wk[w].pc = "t_identify" /\ wk'[w].pc = "t_identify"
      /\ wk'[w].i = wk[w].i + 1) =>
       LET label == wk[w].segments[wk[w].i + 1].speaker_label
       IN IF label \in DictKeys(wk[w].speaker_mapping)
          THEN /\ wk'[w].vs = wk[w].vs
               /\ wk'[w].speaker_mapping = wk[w].speaker_mapping
               /\ disk' = disk
               /\ speakers' = speakers
          ELSE /\ last'.op = "identify_or_create_speaker"
               /\ get_total_embeddings(wk'[w].vs) =
                    get_total_embeddings(wk[w].vs) + 1
               /\ DictKeys(wk'[w].speaker_mapping) =
                    DictKeys(wk[w].speaker_mapping) \cup {label}
               /\ DictGet(wk'[w].speaker_mapping, label, None) =
                    last'.speaker_id
               /\ \A l \in DictKeys(wk[w].speaker_mapping) :
                    DictGet(wk'[w].speaker_mapping, l, None) =
                      DictGet(wk[w].speaker_mapping, l, None)
  /\ (wk[w].pc = "t_identify" /\ wk'[w].pc = "t_35") =>
       /\ wk'[w].vs = wk[w].vs
       /\ DictKeys(wk[w].speaker_mapping) =
            {wk[w].segments[i].speaker_label : i \in 1..Len(wk[w].segments)}
  /\ (wk[w].pc \in {"t_35", "t_transcribe", "t_save"}
      /\ wk'[w].pc \in {"t_transcribe", "t_save", "t_66"}) =>
       /\ wk'[w].vs = wk[w].vs
       /\ wk'[w].speaker_mapping = wk[w].speaker_mapping
  /\ (wk[w].pc = "t_save" /\ wk'[w].pc = "t_66") =>
       /\ Len(segments') = Len(segments) + Len(wk[w].segments)
       /\ SubSeq(segments', 1, Len(segments)) = segments
       /\ \A i \in 1..Len(wk[w].segments) :
            LET row == segments'[Len(segments) + i]
            IN /\ row.audio_file_id = wk[w].audio_file_id
               /\ row.speaker_id # None
               /\ row.speaker_id =
                    DictGet(wk[w].speaker_mapping,
                            Diarization(wk[w].audio_file_id)[i], None)

\* C24: in one staged job identify_or_create_speaker is called exactly once
\* per distinct temporary label (the index grows by one record per distinct
\* label), every segment is saved with the id resolved for its label, and
\* segments that share a label get the same id.
C24_OncePerLabel ==
  [][\A w \in Workers : StagedResolution(w)]_vars

\* a staged job has saved three segments, two of them of one label
C24_Witness ==
  \E w \in Workers :
    /\ wk[w].pc = "t_66"
    /\ Len(wk[w].segments) = 3
    /\ Len(wk[w].speaker_mapping) = 2
    /\ Len(segments) >= 3
    /\ segments[Len(segments)].speaker_id =
         segments[Len(segments) - 2].speaker_id

\* the temporary labels of a recording
LabelsOf(audio_file_id) ==
  {Diarization(audio_file_id)[i] : i \in 1..Len(Diarization(audio_file_id))}

\* worker w returns success from a staged job that started on an empty
\* index: every record of its index was added by the job, one per label
FreshStagedJobCompletes(w) ==
  /\ wk[w].pc = "t_final"
  /\ wk'[w].pc = "idle"
  /\ get_total_embeddings(wk[w].vs) = Len(wk[w].speaker_mapping)

\* the job has created one speaker per label and reports that number
ReportsAllNew(w) ==
  LET n == Cardinality(LabelsOf(wk[w].audio_file_id))
      created == {wk[w].new_speakers[i] : i \in 1..Len(wk[w].new_speakers)}
  IN /\ Len(wk[w].new_speakers) = n
     /\ Cardinality(created) = n
     /\ last'.ret = "success"
     /\ jobs'[wk[w].audio_file_id].status = COMPLETED
     /\ jobs'[wk[w].audio_file_id].result[1].new_speakers = n
     /\ jobs'[wk[w].audio_file_id].result[1].segments_count >= n

\* C25 (as stated): a staged job whose diarization yields n distinct labels
\* and that starts on an empty index creates exactly n new speakers and
\* completes with new_speakers = n and segments_count >= n.
C25_AllLabelsNew ==
  [][\A w \in Workers : FreshStagedJobCompletes(w) => ReportsAllNew(w)]_vars

\* the embeddings of different labels of the recording do not match one
\* another
DistinctVoices(audio_file_id) ==
  \A l1 \in LabelsOf(audio_file_id), l2 \in LabelsOf(audio_file_id) :
    l1 # l2 =>
      InnerProduct(NormalizeL2(RecordedVoice(audio_file_id, l1)),
                   NormalizeL2(RecordedVoice(audio_file_id, l2)))
        < SPEAKER_SIMILARITY_THRESHOLD

\* C25 (amended): the same, for a recording in which the embeddings of
\* different labels are less similar to one another than the threshold.
C25_DistinctVoicesAllNew ==
  [][\A w \in Workers :
       (FreshStagedJobCompletes(w) /\ DistinctVoices(wk[w].audio_file_id))
       => ReportsAllNew(w)]_vars

\* a staged job on an empty index has completed with two new speakers
C25_Witness ==
  /\ AUDIO_PIPELINE = "traditional"
  /\ last.op = "process_audio_file"
  /\ last.ret = "success"
  /\ DistinctVoices(last.audio_file_id)
  /\ Len(last.new_speakers) = 2
  /\ get_total_embeddings(disk) = 2
  /\ jobs[last.audio_file_id].result[1].new_speakers = 2

\* the positions of a job after its segment rows have been saved
AfterSave ==
  {"t_66", "t_70", "t_conv", "t_stats", "t_link", "t_speaker", "t_final",
   "g_80", "g_conv", "g_85", "g_stats", "g_link", "g_final"}

\* a committed COMPLETED job has progress 100, step completed, a completion
\* time and a result, and its recording is COMPLETED
CompletedJobs ==
  \A r \in AudioFiles :
    jobs[r].status = COMPLETED =>
      /\ jobs[r].progress = 100
      /\ jobs[r].current_step = "completed"
      /\ jobs[r].completed_at
      /\ jobs[r].result # <<>>
      /\ audio[r].processing_status = COMPLETED

\* one step of worker w inside an invocation.  new_speakers grows exactly
\* when the step inserts a speakers row (a step that raises excepted), the
\* segment rows are inserted in the one saving step, as many as the job has
\* segments, and that number does not change afterwards; the final commit
\* reports the two numbers.
JobAccounting(w) ==
  (wk[w].pc # "idle" /\ wk'[w] # wk[w]) =>
    /\ wk'[w].pc \notin {"idle", "except"} =>
         Len(speakers') - Len(speakers) =
           Len(wk'[w].new_speakers) - Len(wk[w].new_speakers)
    /\ wk'[w].pc = "idle" => speakers' = speakers
    /\ IF wk[w].pc \in {"t_save", "g_save"}
       THEN /\ wk'[w].pc \in AfterSave
            /\ Len(segments') - Len(segments) = Len(wk'[w].segments)
       ELSE Len(segments') = Len(segments)
    /\ (wk[w].pc \in AfterSave /\ wk'[w].pc # "idle") =>
         /\ Len(wk'[w].segments) = Len(wk[w].segments)
         /\ wk'[w].pc \in AfterSave \cup {"except"}
    /\ wk'[w].pc \in AfterSave => wk[w].pc \in AfterSave \cup {"t_save", "g_save"}
    /\ (/\ wk[w].audio_file_id \in AudioFiles
        /\ jobs'[wk[w].audio_file_id].status = COMPLETED) =>
         /\ wk[w].pc \in AfterSave
         /\ jobs'[wk[w].audio_file_id].result[1].new_speakers =
              Len(wk[w].new_speakers)
         /\ jobs'[wk[w].audio_file_id].result[1].segments_count =
              Len(wk[w].segments)

\* C26: in every committed state a COMPLETED job has progress 100, step
\* completed, a completion time and a result summary, and its recording is
\* COMPLETED; the summary's new_speakers is the number of speakers the
\* invocation created and its segments_count the number of segment rows the
\* invocation inserted.
C26_CompletedJob ==
  /\ []CompletedJobs
  /\ [][\A w \in Workers : JobAccounting(w)]_vars

\* a job has completed after creating a speaker and matching another label
C26_Witness ==
  /\ last.op = "process_audio_file"
  /\ last.ret = "success"
  /\ jobs[last.audio_file_id].status = COMPLETED
  /\ jobs[last.audio_file_id].result[1].new_speakers = 1
  /\ jobs[last.audio_file_id].result[1].segments_count = 3
  /\ Len(segments) = 3
  /\ Len(speakers) = 1

\* the insight collaborator has failed in the invocation worker w runs: for
\* the conversation (the exception is on its way to the except clause) or
\* for one of the speakers
InsightFailed(w) ==
  \/ /\ wk[w].pc = "except"
     /\ wk[w].e = "Insight generation failed"
  \/ /\ wk[w].pc = "t_final"
     /\ last.op = "generate_all_speaker_insights"
     /\ last.w = w
     /\ last.failed # {}

\* C27: a failure of the insight collaborator, for the conversation or for
\* a single speaker, aborts the job: the invocation ends with the job
\* FAILED and never COMPLETED.
C27_InsightFailureAborts ==
  [][\A w \in Workers :
       (InsightFailed(w) /\ wk'[w] # wk[w]) =>
         /\ jobs'[wk[w].audio_file_id].status # COMPLETED
         /\ wk'[w].pc = "idle" => jobs'[wk[w].audio_file_id].status = FAILED]_vars

\* the last rows of speaker_segments are the rows of worker w's segments,
\* each with the id resolved for its label
SegmentsSaved(w) ==
  LET n == Len(wk[w].segments)
  IN /\ n > 0
     /\ Len(segments) >= n
     /\ \A i \in 1..n :
          LET row == segments[Len(segments) - n + i]
          IN /\ row.audio_file_id = wk[w].audio_file_id
             /\ row.start_time = wk[w].segments[i].start
             /\ row.duration = wk[w].segments[i].duration
             /\ row.speaker_id =
                  DictGet(wk[w].speaker_mapping,
                          wk[w].segments[i].speaker_label, None)

\* C28: in the staged variant the segment rows of the recording are
\* committed before the transcription collaborator is called, so they are
\* there when the call is made and still there when it has failed.
C28_SegmentsBeforeTranscription ==
  \A w \in Workers :
    (\/ wk[w].pc = "t_transcribe"
     \/ wk[w].pc = "except" /\ wk[w].e = "Transcription failed")
    => SegmentsSaved(w)

\* the step is a call of identify_or_create_speaker
IdentifyStep ==
  /\ last' /= last
  /\ last'.op = "identify_or_create_speaker"

\* what a search of the saved index would have answered to the call
SavedMatch(l) ==
  find_matching_speaker(l.pre.disk, l.embedding, SPEAKER_SIMILARITY_THRESHOLD)

\* what the search of the job's own index answered to the call
OwnMatch(l) ==
  find_matching_speaker(l.pre.vs, l.embedding, SPEAKER_SIMILARITY_THRESHOLD)

\* C29: with every identify_or_create_speaker call mutually excluded (each
\* call is one step) and the jobs otherwise running concurrently on two
\* workers, a call whose embedding matches an insertion that an earlier
\* call has saved returns the earlier identity with is_new = FALSE, so no
\* second identity is created for it.
C29_LaterCallSeesInsertion ==
  [][IdentifyStep /\ ~last'.raised /\ SavedMatch(last').found
       => /\ ~last'.is_new
          /\ last'.speaker_id = SavedMatch(last').speaker]_vars

\* C30: a call decides on the index its job loaded when it started
\* (process_audio.py:38) and on nothing else: when a matching record was
\* saved by the other job after that load, the call finds no match and
\* creates a second identity.  The interleaving of the claim is the one
\* C30_Witness reaches.
C30_CallSearchesOwnIndex ==
  [][IdentifyStep
       => /\ last'.is_new = ~OwnMatch(last').found
          /\ (SavedMatch(last').found /\ ~OwnMatch(last').found
                => /\ last'.is_new
                   /\ last'.speaker_id /= SavedMatch(last').speaker
                   /\ HasSpeaker(DB', SavedMatch(last').speaker)
                   /\ HasSpeaker(DB', last'.speaker_id))]_vars

\* two jobs ran side by side, both calls found no match in their own
\* index, and there are two speaker rows for matching embeddings
C30_Witness ==
  /\ last.op = "identify_or_create_speaker"
  /\ last.is_new
  /\ ~last.raised
  /\ ~OwnMatch(last).found
  /\ SavedMatch(last).found
  /\ SavedMatch(last).speaker /= last.speaker_id
  /\ HasSpeaker(DB, SavedMatch(last).speaker)
  /\ HasSpeaker(DB, last.speaker_id)
  /\ \A w \in Workers : wk[w].pc = "t_identify"

\* every record of snapshot a is in snapshot b at its position, for the
\* same speaker and segment, and tombstoned in b if it is in a
SnapshotKept(a, b) ==
  /\ Len(b.index) >= Len(a.index)
  /\ Len(b.metadata) >= Len(a.metadata)
  /\ \A i \in 1..Len(a.metadata) :
       /\ b.index[i] = a.index[i]
       /\ b.metadata[i].speaker_id = a.metadata[i].speaker_id
       /\ b.metadata[i].segment_id = a.metadata[i].segment_id
       /\ b.metadata[i].audio_file_id = a.metadata[i].audio_file_id
       /\ a.metadata[i].deleted => b.metadata[i].deleted

\* C31: the saved snapshot keeps the effect of every call that has
\* returned: no step of any job or request removes from it a record that an
\* earlier identify_or_create_speaker saved or clears a tombstone that an
\* earlier merge or delete saved.
C31_SnapshotKeepsReturnedCalls ==
  [][SnapshotKept(disk, disk')]_vars

\* the stores the program holds: the saved one and each job's own
HeldStores == {disk} \cup {wk[w].vs : w \in Workers}

\* loading what save() wrote gives the same total, counts and tombstones
RoundTrip(vs, loaded) ==
  /\ get_total_embeddings(loaded) = get_total_embeddings(vs)
  /\ \A id \in KnownIds :
       get_speaker_embeddings_count(loaded, id) =
         get_speaker_embeddings_count(vs, id)
  /\ Len(loaded.metadata) = Len(vs.metadata)
  /\ \A i \in 1..Len(vs.metadata) :
       loaded.metadata[i].deleted = vs.metadata[i].deleted

\* loading a damaged pair of files gives the empty index
DamagedLoadsEmpty(files) ==
  \A a \in FileStates, b \in FileStates :
    (a /= "ok" \/ b /= "ok")
      => LET loaded == load_or_create_index(Damaged(files, a, b))
         IN /\ get_total_embeddings(loaded) = 0
            /\ loaded.metadata = <<>>
            /\ loaded.speaker_to_indices = <<>>

\* C32: saving and then loading a store is a round trip (same total, same
\* per-speaker embedding counts, same tombstone flags); when either file
\* is missing or unreadable, loading gives an empty index (total 0, no
\* metadata, no speakers) instead of failing.
C32_SaveLoadRoundTrip ==
  \A vs \in HeldStores :
    /\ RoundTrip(vs, load_or_create_index(save(vs)))
    /\ DamagedLoadsEmpty(save(vs))

\* a job has loaded a saved index of two records, one of them tombstoned
C32_Witness ==
  \E w \in Workers :
    /\ wk[w].pc = "loaded"
    /\ wk[w].vs = disk
    /\ Len(disk.index) >= 2
    /\ \E i \in 1..Len(disk.metadata) : disk.metadata[i].deleted
    /\ \E i \in 1..Len(disk.metadata) : ~disk.metadata[i].deleted

\* the step ends worker w's invocation for a recording that exists
InvocationEnds(w) ==
  /\ wk[w].pc /= "idle"
  /\ wk'[w].pc = "idle"
  /\ wk[w].audio_file

\* C33: every invocation for an existing recording, whose collaborator
\* calls all return or raise, ends, and when it has ended its job is
\* COMPLETED or FAILED, never PROCESSING.
C33_JobReachesTerminalStatus ==
  /\ \A w \in Workers : (wk[w].pc /= "idle") ~> (wk[w].pc = "idle")
  /\ [][\A w \in Workers :
          InvocationEnds(w)
            => jobs'[wk[w].audio_file_id].status \in {COMPLETED, FAILED}]_vars

\* an invocation has ended through the except clause with the job FAILED
C33_Witness ==
  /\ last.op = "process_audio_file"
  /\ last.ret = "failure"
  /\ last.audio_file_id \in AudioFiles
  /\ jobs[last.audio_file_id].status = FAILED
  /\ \A w \in Workers : wk[w].pc = "idle"

\* the label that the call of the step resolved
ResolvedLabel(l) ==
  wk'[l.w].speaker_mapping[Len(wk'[l.w].speaker_mapping)][1]

\* the positions of the job's index that hold a record made for label
EarlierRecords(vs, label) ==
  {i \in 1..Len(vs.metadata) : vs.metadata[i].segment_id = <<"name", label>>}

C35_RowsReferenceSpeakers ==
  /\ \A i \in 1..Len(segments) : HasSpeaker(DB, segments[i].speaker_id)
  /\ \A i \in 1..Len(links) : HasSpeaker(DB, links[i].speaker_id)

\* the step is a merge_speakers call that returned True
MergeSucceeds ==
  /\ last' /= last
  /\ last'.op = "merge_speakers"
  /\ last'.ok

\* C36: a successful merge never removes its target: after
\* merge_speakers(source, target) has returned True the target's row
\* exists, and when source = target the speaker and its association rows
\* are unchanged.
C36_MergeKeepsTarget ==
  [][MergeSucceeds
       => /\ HasSpeaker(DB', last'.target)
          /\ last'.source = last'.target
               => /\ speakers' = speakers
                  /\ links' = links]_vars

\* the sum of total_speech_duration over the link rows of a speaker
RECURSIVE LinkedDuration(_, _)
LinkedDuration(rows, speaker_id) ==
  IF rows = <<>> THEN 0
  ELSE LinkedDuration(Tail(rows), speaker_id)
         + (IF Head(rows).speaker_id = speaker_id
            THEN Head(rows).total_speech_duration ELSE 0)

NoJobProcessing == \A r \in AudioFiles : jobs[r].status /= PROCESSING

\* C37: in every state in which no job is PROCESSING, after any sequence
\* of completed or failed job runs, merges and deletes, the
\* total_duration_seconds of each speaker equals the sum of the durations
\* of its link rows.
C37_DurationIsSumOfLinks ==
  NoJobProcessing =>
    \A i \in 1..Len(speakers) :
      speakers[i].total_duration_seconds = LinkedDuration(links, speakers[i].id)

\* the recordings for which a speaker has a link row
LinkedRecordings(speaker_id) ==
  {r \in AudioFiles : HasLink(DB, speaker_id, r)}

\* no invocation is under way
AllIdle == \A w \in Workers : wk[w].pc = "idle"

\* C38: after any sequence of completed job runs, also a second run of the
\* same recording, and merges, none served while a job runs, the file_count
\* of each speaker equals the number of distinct recordings for which it
\* has a link row.
C38_FileCountIsLinkedRecordings ==
  (/\ AllIdle
   /\ ~overlapped
   /\ \A r \in AudioFiles : jobs[r].status \in {QUEUED, "absent", COMPLETED}) =>
    \A i \in 1..Len(speakers) :
      speakers[i].file_count = Cardinality(LinkedRecordings(speakers[i].id))

\* the segment rows of a recording
SegmentsOf(rows, audio_file_id) ==
  SelectSeq(rows, LAMBDA x : x.audio_file_id = audio_file_id)

\* lines 48-60: the job row is inserted with its defaults when the
\* recording has none, and is the existing row otherwise
LoadReusesJob ==
  (last' /= last /\ last'.op = "load") =>
    /\ jobs'[last'.audio_file_id] =
         IF jobs[last'.audio_file_id].status = "absent"
         THEN NewJob ELSE jobs[last'.audio_file_id]
    /\ \A r \in AudioFiles \ {last'.audio_file_id} : jobs'[r] = jobs[r]

\* lines 62-68: the invocation enters at initialization with progress 0
EntersAtInitialization ==
  (last' /= last /\ last'.op = "commit" /\ last'.at = "loaded") =>
    \E w \in Workers :
      /\ wk[w].pc = "loaded"
      /\ jobs'[wk[w].audio_file_id] =
           [jobs[wk[w].audio_file_id] EXCEPT !.status = PROCESSING,
                                             !.started_at = TRUE,
                                             !.current_step = "initialization",
                                             !.progress = 0]

\* no step of an invocation removes a segment row
JobKeepsSegments ==
  (last' /= last /\ last'.op \notin {"merge_speakers", "delete_speaker"}) =>
    /\ Len(segments') >= Len(segments)
    /\ SubSeq(segments', 1, Len(segments)) = segments

\* C39: an invocation inserts a job row only when the recording has none;
\* a re-submission works on the existing row, re-enters at initialization
\* with progress 0 and inserts the recording's segments again, the segments
\* of the earlier attempt staying in place.
C39_ResubmissionReusesJob ==
  [][LoadReusesJob /\ EntersAtInitialization /\ JobKeepsSegments]_vars

\* a second invocation for a recording has completed on the row of the
\* first, and the recording has the segments of both
C39_Witness ==
  \E r \in AudioFiles :
    /\ runs = 2
    /\ last.op = "process_audio_file"
    /\ last.audio_file_id = r
    /\ jobs[r].status = COMPLETED
    /\ Len(SegmentsOf(segments, r)) = 2 * last.segments_count
    /\ last.segments_count > 0

\* C40: in every committed state from the moment a job is marked
\* PROCESSING, the job's status equals the processing_status of its
\* recording: both PROCESSING, both COMPLETED or both FAILED.
C40_JobAndRecordingAgree ==
  \A r \in AudioFiles :
    jobs[r].status \in {PROCESSING, COMPLETED, FAILED}
      => audio[r].processing_status = jobs[r].status

\* a failed recording has been submitted again and its job and the
\* recording are PROCESSING once more
C40_Witness ==
  \E r \in AudioFiles :
    /\ runs = 2
    /\ jobs[r].status = PROCESSING
    /\ jobs[r].completed_at
    /\ jobs[r].error_message /= ""
    /\ audio[r].processing_status = PROCESSING

====
